---- MODULE Spec2Model ----
(***************************************************************************)
(* A model of the yam-offer-viewer: the purchase modal of the Home page    *)
(* (approve / buy / Max), the client-side RealTokenAPI cache, the          *)
(* /api/token handler with its persisted cache file, and the Max-amount    *)
(* arithmetic.                                                              *)
(*                                                                         *)
(* JavaScript runs one handler or one promise continuation at a time, so   *)
(* each action is the code that runs between two suspension points.        *)
(* Amounts are integers: buyAmount and offer.amount are in 10^-6 token,    *)
(* offer.price is in 10^-2 (it is printed with toFixed(2)), allowance and  *)
(* balance are raw ERC-20 units.                                           *)
(***************************************************************************)
EXTENDS Integers, Sequences, FiniteSets, TLC

VARIABLES
    \* ---- Home component (useState) and the wallet context
    offer, loading, error, buyAmount, showBuyModal, txStatus, allowance,
    isAllowanceLoading, isApproving, txError, balance, isConnected,
    \* ---- asynchronous invocations of the Home handlers, and the chain
    txs, timers, loads, reads, chainAllowance, chainBalance,
    \* ---- the clock (Date.now(), in ms)
    now,
    \* ---- RealTokenAPI (static fields), its fetches, the callers of
    \* getTokenDetails and the microtask queue
    cache, cacheTimestamp, initializationPromise, fetches, callers, micro,
    \* ---- the /api/token process: the cache file and the requests being served
    file, reqs,
    \* ---- the argument of the latest loadOffer call
    requested,
    \* ---- one loadOffer run in detail: what the chain, the registry and the
    \* tokens answer, and the position and results of the run
    rpc, run,
    \* ---- fetchAllTokens building the cache from the registry's array
    build,
    \* ---- the exception an event handler of the page raised and nothing caught
    raised

homeVars == <<offer, loading, error, buyAmount, showBuyModal, txStatus, allowance,
              isAllowanceLoading, isApproving, txError, balance, isConnected,
              txs, timers, loads, reads, chainAllowance, chainBalance>>

cacheVars == <<cache, cacheTimestamp, initializationPromise, fetches, callers, micro>>

serverVars == <<file, reqs>>

loadVars == <<rpc, run, build, raised>>

\* The page: the component, its latest loadOffer call, the detailed run.
pageVars == <<homeVars, requested, loadVars>>

vars == <<pageVars, now, cacheVars, serverVars>>

\* What the handlers of the Home page leave alone, apart from the callers of
\* loadOffer, which set requested.
notLoad == <<now, cacheVars, serverVars, loadVars>>
notHome == <<requested, notLoad>>

----------------------------------------------------------------------------
\* Bounds of the model
MaxTxs == 1
MaxLoads == 1
MaxReads == 1
MaxTicks == 2
MaxFetches == 2
MaxCallers == 3
MaxReqs == 1

\* Program constants
PRECISION == 6
DefaultDecimals == 18
PriceDigits == 2
AmountDigits == 6

RECURSIVE Pow10(_)
Pow10(n) == IF n = 0 THEN 1 ELSE 10 * Pow10(n - 1)

Min(a, b) == IF a < b THEN a ELSE b

RemoveAt(s, i) == SubSeq(s, 1, i - 1) \o SubSeq(s, i + 1, Len(s))

----------------------------------------------------------------------------
\* The chain and the user's inputs

NoOffer == [id |-> 0]
EmptyAmount == -1

\* Offer ids the user may ask for.
SearchIds == {1}

\* What combineOfferData returns for the offer read by showOffer: price "2.00",
\* amount "1000.000000", paid in a 6-decimal stablecoin.
DisplayOffer(id) ==
    [id |-> id, price |-> 200, amount |-> 1000000000, status |-> "active",
     buyerAddress |-> "usdc", buyerDecimals |-> 6, offerDecimals |-> 18]

OfferExists(id) == id = 1

\* What the user may type in the amount input ('' is EmptyAmount).
BuyAmountInputs == {EmptyAmount, 1000}

\* On-chain state the wallet's account may start from.
AllowanceInit == {0, 2000}
BalanceInit == {2000}

\* Errors a wallet / RPC call may reject with: ethers errors carry an optional
\* reason (revert reason) and an optional message.
TxErrors == [reason : {"", "execution reverted"}, message : {"", "user rejected"}]

NoError == [op |-> "", message |-> ""]

NoLoadError == [kind |-> "", id |-> 0]

\* No uncaught exception.
NoException == ""

----------------------------------------------------------------------------
\* Pure computations of the Home component

\* offer.buyerDecimals || 18
Decimals(o) == IF o.buyerDecimals = 0 THEN DefaultDecimals ELSE o.buyerDecimals

\* parseFloat(buyAmount) * parseFloat(offer.price), rounded by toFixed(decimals)
\* and converted by parseUnits: the cost in raw pay-token units. a is in 10^-6,
\* p in 10^-2, so a * p is in 10^-8; toFixed rounds to the nearest unit (the
\* inputs of the model have no exact ties, where the double decides).
RoundDiv(a, p, m) == (a \div m) * p + ((a % m) * p + (m \div 2)) \div m

AmountNeeded(a, o) ==
    LET d == Decimals(o) IN
    IF d >= PriceDigits + AmountDigits
    THEN a * o.price * Pow10(d - (PriceDigits + AmountDigits))
    ELSE RoundDiv(a, o.price, Pow10(PriceDigits + AmountDigits - d))

\* buyAmount && parseFloat(buyAmount) > 0
HasAmount(a) == a # EmptyAmount /\ a > 0

\* totalCostRounded.toString() is in exponent notation (below 1e-6), which
\* parseUnits rejects: the render's catch sets calculationError.
CalculationError(a, o) ==
    /\ HasAmount(a)
    /\ Decimals(o) > AmountDigits
    /\ a * o.price > 0
    /\ a * o.price < Pow10(PriceDigits)

\* needsApproval of the modal's render
NeedsApproval_NoCheck(a, o, alw) == FALSE

NeedsApproval(a, o, alw) ==
    /\ HasAmount(a)
    /\ ~CalculationError(a, o)
    /\ alw < AmountNeeded(a, o)

\* disabled attribute of the Approve button
ApproveDisabled(a, o) ==
    \/ isApproving
    \/ txStatus = "pending"
    \/ isAllowanceLoading
    \/ ~HasAmount(a)
    \/ CalculationError(a, o)

\* disabled attribute of the Confirm button
ConfirmDisabled(a, o, alw) ==
    \/ ~HasAmount(a)
    \/ isApproving
    \/ txStatus = "pending"
    \/ NeedsApproval(a, o, alw)
    \/ CalculationError(a, o)

\* disabled attribute of the amount input and of the Cancel button
PendingDisabled == txStatus = "pending" \/ isApproving

\* err.reason || err.message || 'An unknown error occurred'
ErrorMessage_MessageFirst(e) ==
    IF e.message # "" THEN e.message
    ELSE IF e.reason # "" THEN e.reason
    ELSE "An unknown error occurred"

ErrorMessage(e) ==
    IF e.reason # "" THEN e.reason
    ELSE IF e.message # "" THEN e.message
    ELSE "An unknown error occurred"

\* handleSetMaxAmount's arithmetic: priceBN = parseUnits(offer.price, 6),
\* balance * 10^6 div priceBN, min with parseUnits(offer.amount, 6).
\* Defined only for priceBN # 0 (BigNumber.div throws on zero).
MaxAmountBN_Mod(bal, price, amount) ==
    LET priceBN == price * Pow10(PRECISION - PriceDigits)
        balanceScaled == bal * Pow10(PRECISION)
        maxAmountFromBalanceBN == balanceScaled % priceBN
        offerAmountBN == amount * Pow10(PRECISION - AmountDigits)
    IN  IF maxAmountFromBalanceBN < offerAmountBN
        THEN maxAmountFromBalanceBN ELSE offerAmountBN

MaxAmountBN(bal, price, amount) ==
    LET priceBN == price * Pow10(PRECISION - PriceDigits)
        balanceScaled == bal * Pow10(PRECISION)
        maxAmountFromBalanceBN == balanceScaled \div priceBN
        offerAmountBN == amount * Pow10(PRECISION - AmountDigits)
    IN  IF maxAmountFromBalanceBN < offerAmountBN
        THEN maxAmountFromBalanceBN ELSE offerAmountBN

----------------------------------------------------------------------------
\* Helpers that stand for a call made inside a handler

\* useEffect([showBuyModal, signer, offer]): updateBuyModalData() when all three
\* are set; it sets isAllowanceLoading and starts the two reads.
EffectReads(show, signer, o) ==
    IF show /\ signer /\ o # NoOffer
    THEN /\ Len(reads) < MaxReads
         /\ reads' = Append(reads, o.buyerAddress)
         /\ isAllowanceLoading' = TRUE
    ELSE UNCHANGED <<reads, isAllowanceLoading>>

----------------------------------------------------------------------------
HomeInit ==
    /\ offer = NoOffer
    /\ loading = FALSE
    /\ error = NoLoadError
    /\ buyAmount = EmptyAmount
    /\ showBuyModal = FALSE
    /\ txStatus = "idle"
    /\ allowance = 0
    /\ isAllowanceLoading = FALSE
    /\ isApproving = FALSE
    /\ txError = NoError
    /\ balance = 0
    /\ isConnected = FALSE
    /\ txs = <<>>
    /\ timers = <<>>
    /\ loads = <<>>
    /\ reads = <<>>
    /\ chainAllowance \in AllowanceInit
    /\ chainBalance \in BalanceInit
    /\ requested = 0

\* WalletProvider's effect: the wallet collaborator connects or disconnects.
WalletConnect ==
    /\ ~isConnected
    /\ isConnected' = TRUE
    /\ EffectReads(showBuyModal, TRUE, offer)
    /\ UNCHANGED <<offer, loading, error, buyAmount, showBuyModal, txStatus, allowance,
                   isApproving, txError, balance, txs, timers,
                   loads, chainAllowance, chainBalance,
                   notHome>>

WalletDisconnect ==
    /\ isConnected
    /\ isConnected' = FALSE
    /\ UNCHANGED <<offer, loading, error, buyAmount, showBuyModal, txStatus, allowance,
                   isAllowanceLoading, isApproving, txError, balance, txs, timers, loads, reads, chainAllowance, chainBalance,
                   notHome>>

\* The route's id changes (search, link, back): the effect calls loadOffer(id).
NavigateWithin(id, n) ==
    /\ Len(loads) < n
    /\ loading' = TRUE
    /\ error' = NoLoadError
    /\ loads' = Append(loads, id)
    /\ requested' = id
    /\ UNCHANGED <<offer, buyAmount, showBuyModal, txStatus, allowance, isAllowanceLoading,
                   isApproving, txError, balance, isConnected, txs, timers,
                   reads, chainAllowance, chainBalance,
                   notLoad>>

Navigate(id) == NavigateWithin(id, MaxLoads)

\* The route loses its id: setOffer(null); setError(null).
NavigateHome ==
    /\ offer # NoOffer \/ error # NoLoadError
    /\ offer' = NoOffer
    /\ error' = NoLoadError
    /\ UNCHANGED <<loading, buyAmount, showBuyModal, txStatus, allowance,
                   isAllowanceLoading, isApproving, txError, balance, isConnected, txs,
                   timers, loads, reads, chainAllowance, chainBalance,
                   notHome>>

\* loadOffer after its awaits: the offer was found and combined.
LoadFound(i) ==
    /\ i \in 1..Len(loads)
    /\ OfferExists(loads[i])
    /\ offer' = DisplayOffer(loads[i])
    /\ loading' = FALSE
    /\ loads' = RemoveAt(loads, i)
    /\ EffectReads(showBuyModal, isConnected, DisplayOffer(loads[i]))
    /\ UNCHANGED <<error, buyAmount, showBuyModal, txStatus, allowance, isApproving,
                   txError, balance, isConnected, txs, timers,
                   chainAllowance, chainBalance,
                   notHome>>

\* loadOffer after its awaits: getOffer returned null.
LoadNotFound(i) ==
    /\ i \in 1..Len(loads)
    /\ error' = [kind |-> "not found", id |-> loads[i]]
    /\ offer' = NoOffer
    /\ loading' = FALSE
    /\ loads' = RemoveAt(loads, i)
    /\ UNCHANGED <<buyAmount, showBuyModal, txStatus, allowance, isAllowanceLoading,
                   isApproving, txError, balance, isConnected, txs, timers, reads, chainAllowance, chainBalance,
                   notHome>>

\* "Buy this offer": shown for an active offer when not loading, disabled
\* without a wallet.
OpenModal ==
    /\ offer # NoOffer /\ ~loading /\ offer.status = "active"
    /\ isConnected
    /\ ~showBuyModal
    /\ showBuyModal' = TRUE
    /\ EffectReads(TRUE, isConnected, offer)
    /\ UNCHANGED <<offer, loading, error, buyAmount, txStatus, allowance, isApproving,
                   txError, balance, isConnected, txs, timers,
                   loads, chainAllowance, chainBalance,
                   notHome>>

ModalShown == showBuyModal /\ offer # NoOffer

\* The X of the modal: never disabled.
CloseModal ==
    /\ ModalShown
    /\ showBuyModal' = FALSE
    /\ UNCHANGED <<offer, loading, error, buyAmount, txStatus, allowance,
                   isAllowanceLoading, isApproving, txError, balance, isConnected,
                   txs, timers, loads, reads, chainAllowance, chainBalance,
                   notHome>>

\* The Cancel button: disabled while approving or pending.
CancelModal ==
    /\ ModalShown
    /\ ~PendingDisabled
    /\ showBuyModal' = FALSE
    /\ UNCHANGED <<offer, loading, error, buyAmount, txStatus, allowance,
                   isAllowanceLoading, isApproving, txError, balance, isConnected,
                   txs, timers, loads, reads, chainAllowance, chainBalance,
                   notHome>>

\* Typing in the amount input.
EditAmount(v) ==
    /\ ModalShown
    /\ ~PendingDisabled
    /\ v # buyAmount
    /\ buyAmount' = v
    /\ UNCHANGED <<offer, loading, error, showBuyModal, txStatus, allowance,
                   isAllowanceLoading, isApproving, txError, balance, isConnected,
                   txs, timers, loads, reads, chainAllowance, chainBalance,
                   notHome>>

\* The Max button: handleSetMaxAmount (the button has no disabled attribute).
SetMaxAmount ==
    /\ ModalShown
    /\ IF offer.price = 0
       THEN /\ raised = NoException
            /\ raised' = "division-by-zero"
            /\ UNCHANGED buyAmount
       ELSE /\ buyAmount' = MaxAmountBN(balance, offer.price, offer.amount)
            /\ buyAmount' # buyAmount
            /\ UNCHANGED raised
    /\ UNCHANGED <<offer, loading, error, showBuyModal, txStatus, allowance,
                   isAllowanceLoading, isApproving, txError, balance, isConnected,
                   txs, timers, loads, reads, chainAllowance, chainBalance,
                   requested, now, cacheVars, serverVars, rpc, run, build>>

\* updateBuyModalData after its awaits, started by the effect: both reads
\* answered, or one of them (or getAddress) failed and both are reset to zero.
\* updateBuyModalData with an empty catch block: a failed read keeps the
\* values of the last one.
ReadDone_KeepsStale(i, ok) ==
    /\ i \in 1..Len(reads)
    /\ allowance' = IF ok THEN chainAllowance ELSE allowance
    /\ balance' = IF ok THEN chainBalance ELSE balance
    /\ isAllowanceLoading' = FALSE
    /\ reads' = RemoveAt(reads, i)
    /\ UNCHANGED <<offer, loading, error, buyAmount, showBuyModal, txStatus, isApproving,
                   txError, isConnected, txs, timers, loads,
                   chainAllowance, chainBalance,
                   notHome>>

ReadDone(i, ok) ==
    /\ i \in 1..Len(reads)
    /\ allowance' = IF ok THEN chainAllowance ELSE 0
    /\ balance' = IF ok THEN chainBalance ELSE 0
    /\ isAllowanceLoading' = FALSE
    /\ reads' = RemoveAt(reads, i)
    /\ UNCHANGED <<offer, loading, error, buyAmount, showBuyModal, txStatus, isApproving,
                   txError, isConnected, txs, timers, loads,
                   chainAllowance, chainBalance,
                   notHome>>

\* A transaction's failure reaches the handler's catch block.
Caught(op, e) ==
    /\ txError' = [op |-> op, message |-> ErrorMessage(e)]
    /\ txStatus' = "error"

\* Click on Approve: handleApprove up to its first await (approve is called).
ClickApprove(n) ==
    /\ ModalShown
    /\ NeedsApproval(buyAmount, offer, allowance)
    /\ ~ApproveDisabled(buyAmount, offer)
    /\ isConnected /\ buyAmount # EmptyAmount
    /\ Len(txs) < n
    /\ isApproving' = TRUE
    /\ txStatus' = "pending"
    /\ txs' = Append(txs, [kind |-> "approve", stage |-> "submit", amt |-> buyAmount,
                           units |-> AmountNeeded(buyAmount, offer), ofr |-> offer.id])
    /\ UNCHANGED <<offer, loading, error, buyAmount, showBuyModal, allowance,
                   isAllowanceLoading, txError, balance, isConnected, timers, loads, reads, chainAllowance, chainBalance,
                   notHome>>

\* approve() resolved: the transaction is broadcast; handleApprove awaits tx.wait().
ApproveSubmitted(t) ==
    /\ t \in 1..Len(txs)
    /\ txs[t].kind = "approve" /\ txs[t].stage = "submit"
    /\ txs' = [txs EXCEPT ![t].stage = "wait"]
    /\ UNCHANGED <<offer, loading, error, buyAmount, showBuyModal, txStatus, allowance,
                   isAllowanceLoading, isApproving, txError, balance, isConnected,
                   timers, loads, reads, chainAllowance, chainBalance,
                   notHome>>

\* handleApprove without the awaited updateBuyModalData(): idle at once.
ApproveConfirmed_NoRecheck(t) ==
    /\ t \in 1..Len(txs)
    /\ txs[t].kind = "approve" /\ txs[t].stage = "wait"
    /\ chainAllowance' = txs[t].units
    /\ txStatus' = "idle"
    /\ isApproving' = FALSE
    /\ txs' = RemoveAt(txs, t)
    /\ UNCHANGED <<offer, loading, error, buyAmount, showBuyModal, allowance,
                   isAllowanceLoading, txError, balance, isConnected, timers, loads,
                   reads, chainBalance, notHome>>

\* tx.wait() resolved: the approval is mined; handleApprove calls
\* updateBuyModalData() and awaits it.
ApproveConfirmed(t) ==
    /\ t \in 1..Len(txs)
    /\ txs[t].kind = "approve" /\ txs[t].stage = "wait"
    /\ chainAllowance' = txs[t].units
    /\ isAllowanceLoading' = TRUE
    /\ txs' = [txs EXCEPT ![t].stage = "recheck"]
    /\ UNCHANGED <<offer, loading, error, buyAmount, showBuyModal, txStatus, allowance,
                   isApproving, txError, balance, isConnected, timers, loads, reads, chainBalance,
                   notHome>>

\* The awaited updateBuyModalData() returned: setTxStatus('idle');
\* setIsApproving(false).
ApproveRechecked(t, ok) ==
    /\ t \in 1..Len(txs)
    /\ txs[t].kind = "approve" /\ txs[t].stage = "recheck"
    /\ allowance' = IF ok THEN chainAllowance ELSE 0
    /\ balance' = IF ok THEN chainBalance ELSE 0
    /\ isAllowanceLoading' = FALSE
    /\ txStatus' = "idle"
    /\ isApproving' = FALSE
    /\ txs' = RemoveAt(txs, t)
    /\ UNCHANGED <<offer, loading, error, buyAmount, showBuyModal, txError, isConnected,
                   timers, loads, reads, chainAllowance, chainBalance,
                   notHome>>

\* approve() or tx.wait() rejected: the catch block, then setIsApproving(false).
ApproveFailed(t, e) ==
    /\ t \in 1..Len(txs)
    /\ txs[t].kind = "approve" /\ txs[t].stage \in {"submit", "wait"}
    /\ Caught("approve", e)
    /\ isApproving' = FALSE
    /\ txs' = RemoveAt(txs, t)
    /\ UNCHANGED <<offer, loading, error, buyAmount, showBuyModal, allowance,
                   isAllowanceLoading, balance, isConnected, timers, loads,
                   reads, chainAllowance, chainBalance,
                   notHome>>

\* Click on Confirm: handleBuy up to its first await (buy is called). The two
\* alerts return without a state change.
ClickBuy(n) ==
    /\ ModalShown
    /\ ~NeedsApproval(buyAmount, offer, allowance)
    /\ ~ConfirmDisabled(buyAmount, offer, allowance)
    /\ isConnected
    /\ HasAmount(buyAmount)
    /\ buyAmount <= offer.amount
    /\ Len(txs) < n
    /\ txStatus' = "pending"
    /\ txs' = Append(txs, [kind |-> "buy", stage |-> "submit", amt |-> buyAmount,
                           units |-> AmountNeeded(buyAmount, offer), ofr |-> offer.id])
    /\ UNCHANGED <<offer, loading, error, buyAmount, showBuyModal, allowance,
                   isAllowanceLoading, isApproving, txError, balance, isConnected,
                   timers, loads, reads, chainAllowance, chainBalance,
                   notHome>>

\* buy() resolved: the transaction is broadcast; handleBuy awaits tx.wait().
BuySubmitted_SuccessOnBroadcast(t) ==
    /\ t \in 1..Len(txs)
    /\ txs[t].kind = "buy" /\ txs[t].stage = "submit"
    /\ txs' = [txs EXCEPT ![t].stage = "wait"]
    /\ txStatus' = "success"
    /\ UNCHANGED <<offer, loading, error, buyAmount, showBuyModal, allowance,
                   isAllowanceLoading, isApproving, txError, balance, isConnected,
                   timers, loads, reads, chainAllowance, chainBalance,
                   notHome>>

BuySubmitted(t) ==
    /\ t \in 1..Len(txs)
    /\ txs[t].kind = "buy" /\ txs[t].stage = "submit"
    /\ txs' = [txs EXCEPT ![t].stage = "wait"]
    /\ UNCHANGED <<offer, loading, error, buyAmount, showBuyModal, txStatus, allowance,
                   isAllowanceLoading, isApproving, txError, balance, isConnected,
                   timers, loads, reads, chainAllowance, chainBalance,
                   notHome>>

\* tx.wait() resolved: the purchase is mined (the contract pulled the cost from
\* the allowance); setTxStatus('success') and the 2 s timer is armed.
BuyConfirmed(t) ==
    /\ t \in 1..Len(txs)
    /\ txs[t].kind = "buy" /\ txs[t].stage = "wait"
    /\ chainAllowance >= txs[t].units /\ chainBalance >= txs[t].units
    /\ chainAllowance' = chainAllowance - txs[t].units
    /\ chainBalance' = chainBalance - txs[t].units
    /\ txStatus' = "success"
    /\ timers' = Append(timers, txs[t].ofr)
    /\ txs' = RemoveAt(txs, t)
    /\ UNCHANGED <<offer, loading, error, buyAmount, showBuyModal, allowance,
                   isAllowanceLoading, isApproving, txError, balance, isConnected,
                   loads, reads,
                   notHome>>

\* buy() or tx.wait() rejected: the catch block.
BuyFailed(t, e) ==
    /\ t \in 1..Len(txs)
    /\ txs[t].kind = "buy" /\ txs[t].stage \in {"submit", "wait"}
    /\ Caught("buy", e)
    /\ txs' = RemoveAt(txs, t)
    /\ UNCHANGED <<offer, loading, error, buyAmount, showBuyModal, allowance,
                   isAllowanceLoading, isApproving, balance, isConnected, timers, loads, reads, chainAllowance, chainBalance,
                   notHome>>

\* The setTimeout callback without its loadOffer(id).
TimerFires_NoReload(i) ==
    /\ i \in 1..Len(timers)
    /\ showBuyModal' = FALSE
    /\ txStatus' = "idle"
    /\ buyAmount' = EmptyAmount
    /\ timers' = RemoveAt(timers, i)
    /\ UNCHANGED <<offer, loading, error, loads, allowance, isAllowanceLoading,
                   isApproving, txError, balance, isConnected, txs, reads,
                   chainAllowance, chainBalance, notHome>>

\* The setTimeout callback of handleBuy: close the modal, reset, loadOffer(id).
TimerFires(i) ==
    /\ i \in 1..Len(timers)
    /\ Len(loads) < MaxLoads
    /\ showBuyModal' = FALSE
    /\ txStatus' = "idle"
    /\ buyAmount' = EmptyAmount
    /\ loading' = TRUE
    /\ error' = NoLoadError
    /\ loads' = Append(loads, timers[i])
    /\ requested' = timers[i]
    /\ timers' = RemoveAt(timers, i)
    /\ UNCHANGED <<offer, allowance, isAllowanceLoading, isApproving, txError, balance,
                   isConnected, txs, reads, chainAllowance, chainBalance,
                   notLoad>>

\* The steps of the page with at most n transactions in flight.
HomeNext(n) ==
    \/ WalletConnect
    \/ WalletDisconnect
    \/ \E id \in SearchIds : Navigate(id)
    \/ NavigateHome
    \/ \E i \in 1..MaxLoads : LoadFound(i)
    \/ \E i \in 1..MaxLoads : LoadNotFound(i)
    \/ OpenModal
    \/ CloseModal
    \/ CancelModal
    \/ \E v \in BuyAmountInputs : EditAmount(v)
    \/ SetMaxAmount
    \/ \E i \in 1..MaxReads, ok \in BOOLEAN : ReadDone(i, ok)
    \/ ClickApprove(n)
    \/ \E t \in 1..n : ApproveSubmitted(t)
    \/ \E t \in 1..n : ApproveConfirmed(t)
    \/ \E t \in 1..n, ok \in BOOLEAN : ApproveRechecked(t, ok)
    \/ \E t \in 1..n, e \in TxErrors : ApproveFailed(t, e)
    \/ ClickBuy(n)
    \/ \E t \in 1..n : BuySubmitted(t)
    \/ \E t \in 1..n : BuyConfirmed(t)
    \/ \E t \in 1..n, e \in TxErrors : BuyFailed(t, e)
    \/ \E i \in 1..n : TimerFires(i)

----------------------------------------------------------------------------
\* The clock, and the token snapshots that travel between the community API,
\* the cache file, the /api/token response and the browser's cache

\* 24 * 60 * 60 * 1000, the server's and the browser's maximum cache age
CACHE_MAX_AGE_MS == 24 * 60 * 60 * 1000

RealTokenAPI_CACHE_MAX_AGE_MS == 24 * 60 * 60 * 1000

\* The clock advances by half a maximum age at a time.
TimeStep == CACHE_MAX_AGE_MS \div 2

StartTime == 3 * TimeStep

\* Date.now() moves on.
Tick ==
    /\ now < StartTime + MaxTicks * TimeStep
    /\ now' = now + TimeStep
    /\ UNCHANGED <<pageVars, cacheVars, serverVars>>

\* Token addresses (lower case), and the versions of a token's record; 0 is
\* "no entry for this address".
Addrs == {"0xa1", "0xa2"}

NoTokens == [a \in Addrs |-> 0]

\* Token lists the community API may answer with (keyed by address).
TokenMaps ==
    { [a \in Addrs |-> 1],
      [a \in Addrs |-> IF a = "0xa1" THEN 2 ELSE 0],
      NoTokens }

----------------------------------------------------------------------------
\* RealTokenAPI: the browser's in-memory cache

\* What fetch('/api/token') may resolve to: a 200 with a CacheFile body (its
\* lastUpdated is now, a day old, or missing = 0), a 200 without tokens, a
\* non-OK status, or a rejection.
ApiResponses ==
    [kind : {"ok"}, tokens : TokenMaps,
     lastUpdated : {0, now, now - RealTokenAPI_CACHE_MAX_AGE_MS}]
    \cup [kind : {"notokens", "notok", "throws"}, tokens : {NoTokens}, lastUpdated : {0}]

IdleCaller == [pc |-> "idle", p |-> 0, addr |-> "", snap |-> NoTokens]

CacheInit ==
    /\ cache = NoTokens
    /\ cacheTimestamp = 0
    /\ initializationPromise = 0
    /\ fetches = <<>>
    /\ callers = [c \in 1..MaxCallers |-> IdleCaller]
    /\ micro = <<>>

\* initializeCache's first test: cacheTimestamp && Date.now() - cacheTimestamp < 24h
IsFresh == cacheTimestamp # 0 /\ now - cacheTimestamp < RealTokenAPI_CACHE_MAX_AGE_MS

\* initializeCache's second test: if (this.initializationPromise)
InitializationRunning_Never == FALSE

InitializationRunning == initializationPromise # 0

\* Callers awaiting promise p, in caller order.
RECURSIVE Waiters(_, _)
Waiters(p, c) ==
    IF c > MaxCallers THEN <<>>
    ELSE (IF callers[c].pc = "waiting" /\ callers[c].p = p THEN <<c>> ELSE <<>>)
         \o Waiters(p, c + 1)

\* The end of the initialization (the finally block, and the promise settling):
\* the promise field is reset, and every caller awaiting p is queued to resume.
Settle(p, outcome) ==
    /\ initializationPromise' = 0
    /\ fetches' = [fetches EXCEPT ![p] = outcome]
    /\ micro' = micro \o Waiters(p, 1)
    /\ callers' = [c \in 1..MaxCallers |->
                     IF callers[c].pc = "waiting" /\ callers[c].p = p
                     THEN [callers[c] EXCEPT !.pc = "queued"]
                     ELSE callers[c]]

\* getTokenDetails(a) up to its await: initializeCache() returns a resolved
\* promise (fresh cache), the promise of the initialization in progress, or
\* starts an initialization of its own.
GetTokenDetails(c, a) ==
    /\ callers[c].pc = "idle"
    /\ \A b \in 1..(c - 1) : callers[b].pc # "idle"
    /\ IF IsFresh
       THEN /\ callers' = [callers EXCEPT ![c] = [pc |-> "queued", p |-> 0, addr |-> a,
                                                   snap |-> NoTokens]]
            /\ micro' = Append(micro, c)
            /\ UNCHANGED <<initializationPromise, fetches>>
       ELSE IF InitializationRunning
       THEN /\ callers' = [callers EXCEPT ![c] = [pc |-> "waiting",
                                                   p |-> initializationPromise,
                                                   addr |-> a, snap |-> NoTokens]]
            /\ UNCHANGED <<initializationPromise, fetches, micro>>
       ELSE /\ Len(fetches) < MaxFetches
            /\ fetches' = Append(fetches, "inflight")
            /\ initializationPromise' = Len(fetches) + 1
            /\ callers' = [callers EXCEPT ![c] = [pc |-> "waiting",
                                                   p |-> Len(fetches) + 1,
                                                   addr |-> a, snap |-> NoTokens]]
            /\ UNCHANGED micro
    /\ UNCHANGED <<cache, cacheTimestamp, pageVars, now, serverVars>>

\* The initialization after fetch and response.json(): a body with tokens
\* replaces the cache and takes the body's lastUpdated (or now).
FetchLoaded(p, r) ==
    /\ micro = <<>>
    /\ p \in 1..Len(fetches) /\ fetches[p] = "inflight"
    /\ r.kind = "ok"
    /\ cache' = r.tokens
    /\ cacheTimestamp' = IF r.lastUpdated # 0 THEN r.lastUpdated ELSE now
    /\ Settle(p, "loaded")
    /\ UNCHANGED <<pageVars, now, serverVars>>

\* ... a 200 whose body has no tokens field: only the timestamp is set.
FetchEmpty(p, r) ==
    /\ micro = <<>>
    /\ p \in 1..Len(fetches) /\ fetches[p] = "inflight"
    /\ r.kind = "notokens"
    /\ cacheTimestamp' = now
    /\ Settle(p, "empty")
    /\ UNCHANGED <<cache, pageVars, now, serverVars>>

\* ... a non-OK status or a rejected fetch: only the timestamp is set.
FetchFailed_ClearsCache(p, r) ==
    /\ micro = <<>>
    /\ p \in 1..Len(fetches) /\ fetches[p] = "inflight"
    /\ r.kind \in {"notok", "throws"}
    /\ cache' = NoTokens
    /\ cacheTimestamp' = now
    /\ Settle(p, "failed")
    /\ UNCHANGED <<pageVars, now, serverVars>>

\* An initialization without its finally block: a failure leaves the promise
\* field set.
FetchFailed_LeavesPromise(p, r) ==
    /\ micro = <<>>
    /\ p \in 1..Len(fetches) /\ fetches[p] = "inflight"
    /\ r.kind \in {"notok", "throws"}
    /\ cacheTimestamp' = now
    /\ fetches' = [fetches EXCEPT ![p] = "failed"]
    /\ micro' = micro \o Waiters(p, 1)
    /\ callers' = [c \in 1..MaxCallers |->
                     IF callers[c].pc = "waiting" /\ callers[c].p = p
                     THEN [callers[c] EXCEPT !.pc = "queued"]
                     ELSE callers[c]]
    /\ UNCHANGED <<initializationPromise, cache, pageVars, now, serverVars>>

FetchFailed(p, r) ==
    /\ micro = <<>>
    /\ p \in 1..Len(fetches) /\ fetches[p] = "inflight"
    /\ r.kind \in {"notok", "throws"}
    /\ cacheTimestamp' = now
    /\ Settle(p, "failed")
    /\ UNCHANGED <<cache, pageVars, now, serverVars>>

\* getTokenDetails after its await: this.cache.get(addressLower) || null
Resume ==
    /\ micro # <<>>
    /\ callers' = [callers EXCEPT ![Head(micro)].pc = "done",
                                  ![Head(micro)].snap = cache]
    /\ micro' = Tail(micro)
    /\ UNCHANGED <<cache, cacheTimestamp, initializationPromise, fetches,
                   pageVars, now, serverVars>>

\* The value getTokenDetails returned to caller c (0 is null).
Returned(c) == callers[c].snap[callers[c].addr]

----------------------------------------------------------------------------
\* /api/token: the handler and its cache file

\* readCache() of a file that is missing or unparseable
NullCache == [kind |-> "null", lastUpdated |-> 0, tokens |-> NoTokens]

\* The file at start: missing, not JSON, JSON without the CacheFile fields
\* ("{}"), or a CacheFile that is a day old or current.
FileInit ==
    [kind : {"missing", "corrupt", "junk"}, lastUpdated : {0}, tokens : {NoTokens}]
    \cup [kind : {"data"}, lastUpdated : {StartTime - CACHE_MAX_AGE_MS, StartTime},
          tokens : {[a \in Addrs |-> 1]}]

NoResponse == [status |-> 0, body |-> NullCache, error |-> ""]

IdleRequest ==
    [pc |-> "idle", forceRefresh |-> FALSE, cache |-> NullCache, tokens |-> NoTokens,
     lastUpdated |-> 0, lastError |-> "", fetchError |-> "", res |-> NoResponse]

\* What the community API call of fetchAllTokens may end in: an array of
\* tokens, a rejected fetch, a non-OK status, a body that is not an array, a
\* 404, or (configuration missing, a token whose address is not a string) an
\* exception that leaves fetchAllTokens.
UpstreamOutcomes ==
    [kind : {"array"}, tokens : TokenMaps]
    \cup [kind : {"neterr", "httperr", "notarray", "notfound", "throws"},
          tokens : {NoTokens}]

readCache(f) == IF f.kind \in {"missing", "corrupt"} THEN NullCache ELSE f

isCacheValid(c) == c.kind = "data" /\ now - c.lastUpdated < CACHE_MAX_AGE_MS

\* res.status(200).json(body)
Respond(r, body, err) ==
    reqs' = [reqs EXCEPT ![r].pc = "done",
                         ![r].res = [status |-> 200, body |-> body, error |-> err]]

\* catch (fetchError): the stale cache read at the start if there is one,
\* otherwise the outer catch, which reads the file again.
CatchFetchError(r, thrownBy) ==
    IF reqs[r].cache.kind # "null"
    THEN reqs' = [reqs EXCEPT ![r].pc = "done", ![r].fetchError = thrownBy,
                              ![r].res = [status |-> 200, body |-> reqs[r].cache,
                                          error |-> ""]]
    ELSE reqs' = [reqs EXCEPT ![r].pc = "rereading", ![r].fetchError = thrownBy]

ServerInit ==
    /\ file \in FileInit
    /\ reqs = [r \in 1..(MaxReqs + 1) |-> IdleRequest]

ServerIdle ==
    /\ file = [kind |-> "missing", lastUpdated |-> 0, tokens |-> NoTokens]
    /\ reqs = [r \in 1..(MaxReqs + 1) |-> IdleRequest]

\* A GET arrives: the handler runs up to await readCache().
Request(r, force) ==
    /\ reqs[r].pc = "idle"
    /\ \A q \in 1..(r - 1) : reqs[q].pc # "idle"
    /\ reqs' = [reqs EXCEPT ![r].pc = "reading", ![r].forceRefresh = force]
    /\ UNCHANGED <<file, pageVars, now, cacheVars>>

\* readCache() answered: a valid cache is returned at once (unless refresh=true);
\* the logging of a cache without lastUpdated throws into the outer catch;
\* otherwise fetchAllTokens() is called.
ReadCacheDone(r) ==
    /\ reqs[r].pc = "reading"
    /\ LET c == readCache(file) IN
       IF c.kind = "junk"
       THEN reqs' = [reqs EXCEPT ![r].pc = "rereading", ![r].cache = c]
       ELSE IF isCacheValid(c) /\ ~reqs[r].forceRefresh
       THEN reqs' = [reqs EXCEPT ![r].pc = "done", ![r].cache = c,
                                 ![r].res = [status |-> 200, body |-> c, error |-> ""]]
       ELSE reqs' = [reqs EXCEPT ![r].pc = "fetching", ![r].cache = c]
    /\ UNCHANGED <<file, pageVars, now, cacheVars>>

\* fetchAllTokens() returned or threw. Every failure of the /tokens call is
\* caught inside it (lastError) and leaves allTokens empty, so it returns {}.
FetchAllTokensDone(r, u) ==
    /\ reqs[r].pc = "fetching"
    /\ IF u.kind = "throws"
       THEN CatchFetchError(r, "fetchAllTokens")
       ELSE reqs' = [reqs EXCEPT ![r].pc = "writing",
                                 ![r].tokens = u.tokens,
                                 ![r].lastUpdated = now,
                                 ![r].lastError =
                                     IF u.kind \in {"array", "notfound"} THEN "" ELSE u.kind]
    /\ UNCHANGED <<file, pageVars, now, cacheVars>>

\* writeCache(tokens) finished: the file holds the new record and the response
\* carries the tokens; or it threw, which the same catch handles.
WriteCacheDone(r, ok) ==
    /\ reqs[r].pc = "writing"
    /\ IF ok
       THEN /\ file' = [kind |-> "data", lastUpdated |-> reqs[r].lastUpdated,
                        tokens |-> reqs[r].tokens]
            /\ Respond(r, [kind |-> "data", lastUpdated |-> now,
                           tokens |-> reqs[r].tokens], "")
       ELSE /\ CatchFetchError(r, "writeCache")
            /\ UNCHANGED file
    /\ UNCHANGED <<pageVars, now, cacheVars>>

\* The outer catch after its await readCache(): any cache there is, or an empty
\* one with an error field; always with status 200.
Reread_Status500(r) ==
    /\ reqs[r].pc = "rereading"
    /\ LET staleCache == readCache(file) IN
       IF staleCache.kind # "null"
       THEN Respond(r, staleCache, "")
       ELSE reqs' = [reqs EXCEPT ![r].pc = "done",
                                 ![r].res = [status |-> 500, body |-> NullCache,
                                             error |-> "Cache temporarily unavailable"]]
    /\ UNCHANGED <<file, pageVars, now, cacheVars>>

Reread(r) ==
    /\ reqs[r].pc = "rereading"
    /\ LET staleCache == readCache(file) IN
       IF staleCache.kind # "null"
       THEN Respond(r, staleCache, "")
       ELSE Respond(r, [kind |-> "data", lastUpdated |-> now, tokens |-> NoTokens],
                    "Cache temporarily unavailable")
    /\ UNCHANGED <<file, pageVars, now, cacheVars>>

----------------------------------------------------------------------------
\* Specifications

\* The Home page before anything happened, on a given chain state.
\* No detailed loadOffer run: null for the YamOffer and for the registry's
\* RealToken, {} for an ERC-20's name and symbol.
NoRpc == [offerId |-> 0]
NoYam == [offerId |-> 0]
NoDetails == [shortName |-> "", fullName |-> ""]
NoMeta == [name |-> "", symbol |-> ""]
IdleRun ==
    [pc |-> "idle", calls |-> <<>>, y |-> NoYam, tokenDetails |-> NoDetails,
     exchangeMeta |-> NoMeta, result |-> NoOffer, outcome |-> "", n |-> 0,
     prev |-> NoOffer]
IdleBuild == [pc |-> "idle"]
LoadIdle == rpc = NoRpc /\ run = IdleRun /\ build = IdleBuild /\ raised = NoException

HomeIdle ==
    /\ HomeInit
    /\ chainAllowance = 0

\* The purchase modal.
Init ==
    /\ HomeInit
    /\ now = StartTime
    /\ CacheInit
    /\ ServerIdle
    /\ LoadIdle

Next == HomeNext(MaxTxs)

Spec == Init /\ [][Next]_vars

\* The same page with one more transaction allowed in flight.
NextOverlap == HomeNext(MaxTxs + 1)

SpecOverlap == Init /\ [][NextOverlap]_vars

\* The same page with one more loadOffer allowed in flight, for two offer ids
\* (the second does not exist on the chain).
LoadIds == SearchIds \cup {2}

NextReload ==
    \/ HomeNext(MaxTxs)
    \/ \E id \in LoadIds : NavigateWithin(id, MaxLoads + 1)
    \/ LoadFound(MaxLoads + 1)
    \/ LoadNotFound(MaxLoads + 1)

SpecReload == Init /\ [][NextReload]_vars

\* The browser's token cache and the callers of getTokenDetails.
CacheSpecInit ==
    /\ HomeIdle
    /\ now = StartTime
    /\ CacheInit
    /\ ServerIdle
    /\ LoadIdle

CacheNext ==
    \/ Tick
    \/ \E c \in 1..MaxCallers, a \in Addrs : GetTokenDetails(c, a)
    \/ \E p \in 1..MaxFetches, r \in ApiResponses : FetchLoaded(p, r)
    \/ \E p \in 1..MaxFetches, r \in ApiResponses : FetchEmpty(p, r)
    \/ \E p \in 1..MaxFetches, r \in ApiResponses : FetchFailed(p, r)
    \/ Resume

SpecCache == CacheSpecInit /\ [][CacheNext]_vars

\* ... where every fetch of /api/token completes and every continuation of
\* getTokenDetails runs.
SpecCacheFair ==
    /\ SpecCache
    /\ WF_vars(\E p \in 1..MaxFetches, r \in ApiResponses :
                  FetchLoaded(p, r) \/ FetchEmpty(p, r) \/ FetchFailed(p, r))
    /\ WF_vars(Resume)

\* The /api/token handler serving concurrent requests.
ServerSpecInit ==
    /\ HomeIdle
    /\ now = StartTime
    /\ CacheInit
    /\ ServerInit
    /\ LoadIdle

\* The steps of the handler with at most n requests.
HandlerNext(n) ==
    \/ Tick
    \/ \E r \in 1..n, force \in BOOLEAN : Request(r, force)
    \/ \E r \in 1..n : ReadCacheDone(r)
    \/ \E r \in 1..n, u \in UpstreamOutcomes : FetchAllTokensDone(r, u)
    \/ \E r \in 1..n, ok \in BOOLEAN : WriteCacheDone(r, ok)
    \/ \E r \in 1..n : Reread(r)

ServerNext == HandlerNext(MaxReqs)

SpecServer == ServerSpecInit /\ [][ServerNext]_vars

\* The same handler with one more request, arriving while others are served.
ServerNextOverlap == HandlerNext(MaxReqs + 1)

SpecServerOverlap == ServerSpecInit /\ [][ServerNextOverlap]_vars

\* The Max button on an open modal, for the offers and balances of MaxOffers
\* and MaxBalances.
MaxPrices == {0, 1, 200, 250}

MaxAmounts == {1, 1000, 5000000}

MaxBalances == {0, 1, 2, 199, 200, 1000, 2000}

MaxOffers ==
    [id : {1}, price : MaxPrices, amount : MaxAmounts, status : {"active"},
     buyerAddress : {"pay"}, buyerDecimals : {6, 18}, offerDecimals : {18}]

\* Offers as showOffer returns them (raw price and raw remaining amount), sold
\* in a token with 8 decimals and paid in a token with 6: the remaining amount
\* has more digits than the six that are displayed.
\* price and amount are decimal strings: the digits of price (amount) followed
\* by priceZeros (amountZeros) zeros. removedAt "" is undefined.
MaxYamOffers ==
    [offerId : {1}, price : {10000, 2000000}, priceZeros : {0},
     amount : {100, 149, 151, 199999960}, amountZeros : {0},
     offerTokenAddress : {"rt"}, buyerTokenAddress : {"pay"},
     createdAt : {"0"}, removedAt : {""},
     offerTokenDecimals : {8}, buyerTokenDecimals : {6}]

\* Number(formatUnits(raw, decimals)).toFixed(digits), as an integer in units
\* of 10^-digits: rounded to the nearest (the raw values of the model are no
\* exact ties, where the double decides).
\* A display that cuts the digits off instead of rounding to the nearest.
ToFixed_Truncates(raw, decimals, digits) ==
    IF decimals - digits >= 10 THEN 0
    ELSE IF decimals >= digits
    THEN raw \div Pow10(decimals - digits)
    ELSE raw * Pow10(digits - decimals)

ToFixed(raw, decimals, digits) ==
    IF decimals - digits >= 10 THEN 0
    ELSE IF decimals >= digits
    THEN (raw + Pow10(decimals - digits) \div 2) \div Pow10(decimals - digits)
    ELSE raw * Pow10(digits - decimals)

\* What (1 / priceNum).toFixed(2) shows when it is no decimal number the model
\* can hold: 'Infinity' (priceNum is 0), or a number above the model's range.
Infinity == -3
TooLarge == -2

\* (1 / Number(formatUnits(raw, decimals))).toFixed(digits), in units of
\* 10^-digits: 10^(decimals + digits) / raw, rounded to the nearest.
ReversePrice(raw, decimals, digits) ==
    IF raw = 0 THEN Infinity
    ELSE IF decimals + digits > 8 THEN TooLarge
    ELSE LET num == IF decimals + digits >= 0 THEN Pow10(decimals + digits) ELSE 1
             den == IF decimals + digits >= 0 THEN raw
                    ELSE raw * Pow10(0 - (decimals + digits))
         IN  (2 * num + den) \div (2 * den)

\* yamOffer.offerTokenDecimals ?? 18 (-1 is undefined)
Undefined == -1
OrDefault(d) == IF d = Undefined THEN DefaultDecimals ELSE d

\* getStatusFromOffer: removedAt first, then a remaining amount of zero.
\* The two tests in the other order.
getStatusFromOffer_SoldFirst(y) ==
    IF y.amount = 0 THEN "sold"
    ELSE IF y.removedAt # "" THEN "cancelled"
    ELSE "active"

getStatusFromOffer(y) ==
    IF y.removedAt # "" THEN "cancelled"
    ELSE IF y.amount = 0 THEN "sold"
    ELSE "active"

\* combineOfferData: the displayed offer of a chain offer.
combineOfferData(y) ==
    [id |-> y.offerId,
     price |-> ToFixed(y.price, OrDefault(y.buyerTokenDecimals) - y.priceZeros,
                       PriceDigits),
     reversePrice |-> ReversePrice(y.price,
                                   OrDefault(y.buyerTokenDecimals) - y.priceZeros,
                                   PriceDigits),
     amount |-> ToFixed(y.amount, OrDefault(y.offerTokenDecimals) - y.amountZeros,
                        AmountDigits),
     status |-> getStatusFromOffer(y), buyerAddress |-> y.buyerTokenAddress,
     buyerDecimals |-> OrDefault(y.buyerTokenDecimals),
     offerDecimals |-> OrDefault(y.offerTokenDecimals)]

MaxSpecInit ==
    /\ offer \in MaxOffers \cup {combineOfferData(y) : y \in MaxYamOffers}
    /\ balance \in MaxBalances
    /\ chainBalance = balance
    /\ chainAllowance = 0
    /\ allowance = 0
    /\ showBuyModal = TRUE
    /\ isConnected = TRUE
    /\ buyAmount = EmptyAmount
    /\ loading = FALSE
    /\ error = NoLoadError
    /\ txStatus = "idle"
    /\ isAllowanceLoading = FALSE
    /\ isApproving = FALSE
    /\ txError = NoError
    /\ txs = <<>>
    /\ timers = <<>>
    /\ loads = <<>>
    /\ reads = <<>>
    /\ requested = 0
    /\ now = StartTime
    /\ CacheInit
    /\ ServerIdle
    /\ LoadIdle

MaxNext == SetMaxAmount

SpecMax == MaxSpecInit /\ [][MaxNext]_vars

----------------------------------------------------------------------------
\* One loadOffer run in detail: fetchOfferRpc, then combineOfferData

\* Runs of combineOfferData on the same offer.
MaxRuns == 2

\* STABLE_TOKENS.gnosis (two of its four entries; '' is no name)
STABLE_TOKENS ==
    [wxdai |-> [symbol |-> "WXDAI", decimals |-> 18, name |-> "Wrapped xDAI"],
     usdc |-> [symbol |-> "USDC", decimals |-> 6, name |-> ""]]

getStableMeta(a) ==
    IF a \in DOMAIN STABLE_TOKENS THEN STABLE_TOKENS[a]
    ELSE [symbol |-> "", decimals |-> Undefined, name |-> ""]

isStableToken(a) == a \in DOMAIN STABLE_TOKENS

\* The tokens of the chain: what decimals(), name() and symbol() answer when
\* they answer, and the registry's record of a RealToken.
TokenDecimals == [rt |-> 18, usdc |-> 6, wxdai |-> 18, tok |-> 8]
TokenNames == [rt |-> "RealToken S 1 Main St", usdc |-> "USD Coin",
               wxdai |-> "Wrapped XDAI", tok |-> "Token"]
TokenSymbols == [rt |-> "REALTOKEN-S-1-MAIN-ST", usdc |-> "USDC",
                 wxdai |-> "WXDAI", tok |-> "TOK"]
RegistryDetails(r) ==
    [shortName |-> "1 Main St", fullName |-> "1 Main St, Detroit",
     tokenPrice |-> r.tokenPrice, netRentYear |-> r.netRentYear,
     totalTokens |-> r.totalTokens]

\* The figures a registry record may carry: tokenPrice in cents, netRentYear
\* and totalTokens; Undefined is an absent field.
TokenPrices == {Undefined, 0, 5000}
NetRentYears == {Undefined, 0, 500000}
TotalTokens == {Undefined, 0, 1000}

\* A record's figures matter only when the registry has the record.
Figures(r) ==
    r.registry # {} \/ (r.tokenPrice = 5000 /\ r.netRentYear = 500000 /\ r.totalTokens = 1000)

\* What showOffer returns: [token0, token1, seller, buyer, price, amount].
\* The first is offer 7 of the scenario: 2_000000 and 26_031567000000000000.
ChainOffers ==
    { [offerToken |-> "rt", buyerToken |-> "usdc", price |-> 2000000, priceZeros |-> 0,
       amount |-> 26031567, amountZeros |-> 12],
      [offerToken |-> "tok", buyerToken |-> "rt", price |-> 15, priceZeros |-> 17,
       amount |-> 151, amountZeros |-> 0],
      [offerToken |-> "usdc", buyerToken |-> "wxdai", price |-> 1, priceZeros |-> 18,
       amount |-> 5000000, amountZeros |-> 0],
      [offerToken |-> "rt", buyerToken |-> "tok", price |-> 12345678, priceZeros |-> 0,
       amount |-> 0, amountZeros |-> 0],
      [offerToken |-> "rt", buyerToken |-> "usdc", price |-> 0, priceZeros |-> 0,
       amount |-> 100, amountZeros |-> 16] }

\* The answers of one run: the id asked for (-1: not a finite number >= 0),
\* getOfferCount (-1: the call fails), showOffer (the offer, a revert, a
\* network error), decimals() of the two tokens, the registry's addresses,
\* name() and symbol().
Rpcs ==
    {r \in [offerId : {-1, 1, 7}, count : {-1, 5}, show : {"ok", "revert", "neterr"},
            offer : ChainOffers, offerDecOk : BOOLEAN, buyerDecOk : BOOLEAN,
            registry : {{}, {"rt"}}, nameOk : BOOLEAN, symbolOk : BOOLEAN,
            removedAt : {""}, tokenPrice : TokenPrices,
            netRentYear : NetRentYears, totalTokens : TotalTokens] : Figures(r)}

Call(fn, a) == [fn |-> fn, of |-> a]

notRun == <<homeVars, requested, rpc, build, raised, now, cacheVars, serverVars>>

\* getDecimals without its catch block: no decimals when the call fails.
getDecimals_NoDefault(a, ok) == IF ok THEN TokenDecimals[a] ELSE Undefined

\* getDecimals: decimals() of the token, 18 when the call fails.
getDecimals(a, ok) == IF ok THEN TokenDecimals[a] ELSE DefaultDecimals

\* The YamOffer fetchOfferRpc builds (553-565).
YamOfferOf(r) ==
    [offerId |-> r.offerId,
     offerTokenAddress |-> r.offer.offerToken,
     buyerTokenAddress |-> r.offer.buyerToken,
     price |-> r.offer.price, priceZeros |-> r.offer.priceZeros,
     amount |-> r.offer.amount, amountZeros |-> r.offer.amountZeros,
     createdAt |-> "0", removedAt |-> r.removedAt,
     offerTokenDecimals |-> getDecimals(r.offer.offerToken, r.offerDecOk),
     buyerTokenDecimals |-> getDecimals(r.offer.buyerToken, r.buyerDecOk)]

\* loadOffer calls YamAPI.getOffer: fetchOfferRpc up to its first await. An id
\* that is no finite number >= 0 returns null at once.
FetchOfferRpc ==
    /\ run.pc = "idle"
    /\ run' = IF rpc.offerId < 0
              THEN [run EXCEPT !.pc = "returned"]
              ELSE [run EXCEPT !.pc = "count",
                               !.calls = Append(@, Call("getOfferCount", ""))]
    /\ UNCHANGED notRun

\* A bounds check that is not optional: a failed getOfferCount returns null.
GetOfferCountDone_FailsClosed ==
    /\ run.pc = "count"
    /\ run' = IF rpc.count < 0 \/ rpc.offerId >= rpc.count
              THEN [run EXCEPT !.pc = "returned"]
              ELSE [run EXCEPT !.pc = "show",
                               !.calls = Append(@, Call("showOffer", ""))]
    /\ UNCHANGED notRun

\* getOfferCount answered or failed: null if the id is out of range, else
\* showOffer is called.
GetOfferCountDone ==
    /\ run.pc = "count"
    /\ run' = IF rpc.count >= 0 /\ rpc.offerId >= rpc.count
              THEN [run EXCEPT !.pc = "returned"]
              ELSE [run EXCEPT !.pc = "show",
                               !.calls = Append(@, Call("showOffer", ""))]
    /\ UNCHANGED notRun

\* showOffer answered, or threw into the catch block (568-575), which returns
\* null for every error.
ShowOfferDone ==
    /\ run.pc = "show"
    /\ run' = IF rpc.show # "ok"
              THEN [run EXCEPT !.pc = "returned"]
              ELSE [run EXCEPT !.pc = "decimals",
                               !.calls = @ \o <<Call("decimals", rpc.offer.offerToken),
                                                Call("decimals", rpc.offer.buyerToken)>>]
    /\ UNCHANGED notRun

\* Both getDecimals returned: fetchOfferRpc returns the YamOffer.
GetDecimalsDone ==
    /\ run.pc = "decimals"
    /\ run' = [run EXCEPT !.pc = "returned", !.y = YamOfferOf(rpc)]
    /\ UNCHANGED notRun

\* loadOffer after await YamAPI.getOffer(id): null sets the not-found error,
\* an offer goes to combineOfferData.
GetOfferReturned ==
    /\ run.pc = "returned"
    /\ run' = IF run.y = NoYam
              THEN [run EXCEPT !.pc = "done", !.outcome = "notfound", !.n = @ + 1]
              ELSE [run EXCEPT !.pc = "fetched"]
    /\ UNCHANGED notRun

\* combineOfferData up to its first await: the registry is asked for each
\* address that is not a known stablecoin.
CombineOfferData ==
    /\ run.pc = "fetched"
    /\ LET o == run.y.offerTokenAddress
           b == run.y.buyerTokenAddress
       IN  run' = [run EXCEPT
                     !.pc = "details",
                     !.calls = @ \o (IF isStableToken(o) THEN <<>>
                                     ELSE <<Call("getTokenDetails", o)>>)
                                 \o (IF isStableToken(b) THEN <<>>
                                     ELSE <<Call("getTokenDetails", b)>>)]
    /\ UNCHANGED notRun

\* The registry answered: tokenDetails is the sold token's record, if any.
\* Then exchangeMeta: the stablecoin table, else getErc20Meta(buyerAddress).
GetTokenDetailsDone ==
    /\ run.pc = "details"
    /\ LET o == run.y.offerTokenAddress
           b == run.y.buyerTokenAddress
       IN  run' = [run EXCEPT
                     !.pc = "exchangeMeta",
                     !.tokenDetails = IF ~isStableToken(o) /\ o \in rpc.registry
                                      THEN RegistryDetails(rpc) ELSE NoDetails,
                     !.calls = @ \o (IF isStableToken(b) THEN <<>>
                                     ELSE <<Call("name", b), Call("symbol", b)>>)]
    /\ UNCHANGED notRun

\* getErc20Meta: name() and symbol(), each undefined when its call fails.
getErc20Meta(a) ==
    [name |-> IF rpc.nameOk THEN TokenNames[a] ELSE "",
     symbol |-> IF rpc.symbolOk THEN TokenSymbols[a] ELSE ""]

\* a || b || c on strings
Or2(a, b) == IF a # "" THEN a ELSE b
Or3(a, b, c) == Or2(a, Or2(b, c))

\* exchangeMeta is known. Then offerSymbol: the registry's names, else the
\* stablecoin table, else getErc20Meta(offerAddress).
ExchangeMetaDone ==
    /\ run.pc = "exchangeMeta"
    /\ LET o == run.y.offerTokenAddress
           b == run.y.buyerTokenAddress
           named == Or2(run.tokenDetails.shortName, run.tokenDetails.fullName) # ""
       IN  run' = [run EXCEPT
                     !.pc = "offerMeta",
                     !.exchangeMeta = IF isStableToken(b)
                                      THEN [name |-> getStableMeta(b).name,
                                            symbol |-> getStableMeta(b).symbol]
                                      ELSE getErc20Meta(b),
                     !.calls = @ \o (IF named \/ isStableToken(o) THEN <<>>
                                     ELSE <<Call("name", o), Call("symbol", o)>>)]
    /\ UNCHANGED notRun

\* offerSymbol (728-737)
OfferSymbol(y, details) ==
    LET o == y.offerTokenAddress IN
    IF Or2(details.shortName, details.fullName) # ""
    THEN Or2(details.shortName, details.fullName)
    ELSE IF isStableToken(o)
    THEN Or2(getStableMeta(o).name, getStableMeta(o).symbol)
    ELSE Or3(getErc20Meta(o).name, getErc20Meta(o).symbol, "Unknown property")

\* The price and yield comparisons (703-726) as JavaScript numbers, each
\* known by its kind: "undefined", "NaN", "Infinity", "zero", "nonzero" (finite)
\* or "finite" (zero or not).
KindOf(n) == IF n = Undefined THEN "undefined" ELSE IF n = 0 THEN "zero" ELSE "nonzero"

\* a / b
Div(a, b) ==
    CASE a = "NaN" \/ b = "NaN" \/ a = "undefined" \/ b = "undefined" -> "NaN"
      [] a = "zero" /\ b = "zero" -> "NaN"
      [] a \in {"nonzero", "Infinity"} /\ b = "zero" -> "Infinity"
      [] a = "Infinity" /\ b = "Infinity" -> "NaN"
      [] a = "Infinity" /\ b = "nonzero" -> "Infinity"
      [] a \in {"zero", "nonzero", "finite"} /\ b = "Infinity" -> "zero"
      [] a = "zero" /\ b = "nonzero" -> "zero"
      [] a = "nonzero" /\ b = "nonzero" -> "nonzero"
      [] a = "finite" /\ b = "nonzero" -> "finite"

\* a - b, both of one sign
Sub(a, b) ==
    CASE a = "NaN" \/ b = "NaN" \/ a = "undefined" \/ b = "undefined" -> "NaN"
      [] a = "Infinity" /\ b = "Infinity" -> "NaN"
      [] a = "Infinity" \/ b = "Infinity" -> "Infinity"
      [] b = "zero" -> a
      [] a = "zero" -> b
      [] OTHER -> "finite"

\* tokenDetails?.tokenPrice || 1, in cents
OfficialPriceUsd(details) ==
    IF details = NoDetails \/ details.tokenPrice \in {Undefined, 0} THEN 100
    ELSE details.tokenPrice

IsNumber(k) == k # "undefined"

Comparisons(y, details) ==
    LET priceNum == KindOf(y.price)
        official == KindOf(OfficialPriceUsd(details))
        hasRent == details # NoDetails /\ details.netRentYear # Undefined
        perToken == Div(KindOf(details.netRentYear), KindOf(details.totalTokens))
        priceDiff == Sub(priceNum, official)
        officialYieldPct == IF hasRent /\ OfficialPriceUsd(details) > 0
                            THEN Div(perToken, official) ELSE "undefined"
        offerYieldPct == IF hasRent /\ y.price > 0
                         THEN Div(perToken, priceNum) ELSE "undefined"
        offerYieldDiff == IF offerYieldPct # "undefined"
                          THEN Sub(offerYieldPct,
                                   IF officialYieldPct = "undefined" THEN "zero"
                                   ELSE officialYieldPct)
                          ELSE "undefined"
    IN  [officialPriceUsd |-> OfficialPriceUsd(details),
         priceDiff |-> priceDiff,
         priceDiffPct |-> IF OfficialPriceUsd(details) > 0
                          THEN Div(priceDiff, official) ELSE "undefined",
         offerYieldPct |-> offerYieldPct,
         officialYieldPct |-> officialYieldPct,
         offerYieldDiff |-> offerYieldDiff,
         offerYieldDiffPct |-> IF IsNumber(officialYieldPct) /\ offerYieldDiff # "undefined"
                               THEN Div(offerYieldDiff, officialYieldPct)
                               ELSE "undefined"]

\* The Offer combineOfferData returns (739-766): createdAt is the chain's
\* time when the YamOffer has one, else the time of the call.
EnrichedOffer(y, details, exchangeMeta, t) ==
    combineOfferData(y) @@
    [createdAt |-> IF y.createdAt # "" /\ y.createdAt # "0"
                   THEN [of |-> y.createdAt, at |-> 0]
                   ELSE [of |-> "now", at |-> t],
     tokenDetails |-> details,
     offerAddress |-> y.offerTokenAddress,
     offerSymbol |-> OfferSymbol(y, details),
     buyerSymbol |-> exchangeMeta.symbol,
     priceSymbol |-> Or3(getStableMeta(y.buyerTokenAddress).symbol,
                         exchangeMeta.symbol, "$"),
     seller |-> "seller"] @@
    Comparisons(y, details)

\* combineOfferData returns; loadOffer: setOffer(combinedOffer).
OfferMetaDone ==
    /\ run.pc = "offerMeta"
    /\ run' = [run EXCEPT
                 !.pc = "done", !.outcome = "offer", !.n = @ + 1,
                 !.result = EnrichedOffer(run.y, run.tokenDetails,
                                          run.exchangeMeta, now)]
    /\ UNCHANGED notRun

\* The same offer is loaded again and the chain returns the same YamOffer:
\* combineOfferData runs on it once more.
CombineAgain ==
    /\ run.pc = "done" /\ run.outcome = "offer"
    /\ run.n < MaxRuns
    /\ run' = [run EXCEPT !.pc = "fetched", !.calls = <<>>, !.prev = run.result,
                          !.tokenDetails = NoDetails, !.exchangeMeta = NoMeta]
    /\ UNCHANGED notRun

\* One run of loadOffer against every combination of answers.
LoadSpecInit ==
    /\ HomeIdle
    /\ now = StartTime
    /\ CacheInit
    /\ ServerIdle
    /\ rpc \in Rpcs
    /\ build = IdleBuild /\ raised = NoException
    /\ run = IdleRun

LoadNext ==
    \/ FetchOfferRpc
    \/ GetOfferCountDone
    \/ ShowOfferDone
    \/ GetDecimalsDone
    \/ GetOfferReturned
    \/ CombineOfferData
    \/ GetTokenDetailsDone
    \/ ExchangeMetaDone
    \/ OfferMetaDone

SpecLoad == LoadSpecInit /\ [][LoadNext]_vars

\* combineOfferData applied, once or again later, to YamOffers as a source of
\* offers may report them: with or without a removal timestamp, with the
\* decimals read or defaulted.
EnrichRpcs ==
    {r \in [offerId : {7}, count : {-1}, show : {"ok"},
            offer : ChainOffers, offerDecOk : BOOLEAN, buyerDecOk : BOOLEAN,
            registry : {{}, {"rt"}}, nameOk : BOOLEAN, symbolOk : BOOLEAN,
            removedAt : {"", "1700000000"}, tokenPrice : TokenPrices,
            netRentYear : NetRentYears, totalTokens : TotalTokens] : Figures(r)}

EnrichSpecInit ==
    /\ HomeIdle
    /\ now = StartTime
    /\ CacheInit
    /\ ServerIdle
    /\ rpc \in EnrichRpcs
    /\ build = IdleBuild /\ raised = NoException
    /\ run = [IdleRun EXCEPT !.pc = "fetched", !.y = YamOfferOf(rpc)]

EnrichNext ==
    \/ Tick
    \/ CombineOfferData
    \/ GetTokenDetailsDone
    \/ ExchangeMetaDone
    \/ OfferMetaDone
    \/ CombineAgain

SpecEnrich == EnrichSpecInit /\ [][EnrichNext]_vars

\* A raw amount as mantissa and count of trailing zeros, in its one form
\* with a mantissa that does not end in 0.
RECURSIVE Units(_, _)
Units(m, zeros) ==
    IF m = 0 THEN [mantissa |-> 0, zeros |-> 0]
    ELSE IF m % 10 = 0 THEN Units(m \div 10, zeros + 1)
    ELSE [mantissa |-> m, zeros |-> zeros]

\* ethers.utils.parseUnits of a string with `digits` decimals, q being the
\* string's value in units of its last digit: an error when the string has
\* more non-zero decimals than `decimals`.
parseUnits(q, digits, decimals) ==
    IF decimals >= digits THEN Units(q, decimals - digits)
    ELSE IF q % Pow10(digits - decimals) = 0
    THEN Units(q \div Pow10(digits - decimals), 0)
    ELSE [mantissa |-> Undefined, zeros |-> 0]

\* handleBuy: the price argument of contract.buy (970)
BuyPrice(o) == parseUnits(o.price, PriceDigits, o.buyerDecimals)

----------------------------------------------------------------------------
\* fetchAllTokens: from the registry's array to the cached map

\* Records in the registry's array.
MaxTokens == 2

\* Addresses as the registry spells them, and String.toLowerCase on them.
Spellings == {"0xA1", "0xa2"}
toLowerCase == [s \in Spellings \cup Addrs |->
                  IF s = "0xA1" THEN "0xa1" ELSE s]

\* The address fields of a record, as the code tries them; '' is an absent or
\* empty field.
AddressFields ==
    <<"tokenAddress", "address", "contractAddress",
      "ethereumContract", "xDaiContract", "gnosisContract">>

RawTokens ==
    [tokenAddress : {""} \cup Spellings, address : {""} \cup Spellings,
     contractAddress : {""} \cup Spellings, ethereumContract : {""} \cup Spellings,
     xDaiContract : {""} \cup Spellings, gnosisContract : {""} \cup Spellings,
     shortName : {"first"}]

\* The records that may follow the first in the array.
NextTokens ==
    { [tokenAddress |-> "", address |-> "", contractAddress |-> "",
       ethereumContract |-> "", xDaiContract |-> "0xa2", gnosisContract |-> "0xA1",
       shortName |-> "next"],
      [tokenAddress |-> "", address |-> "", contractAddress |-> "",
       ethereumContract |-> "", xDaiContract |-> "", gnosisContract |-> "",
       shortName |-> "next"] }

RECURSIVE TokenArrays(_)
TokenArrays(n) ==
    IF n = 1 THEN {<<t>> : t \in RawTokens}
    ELSE TokenArrays(n - 1) \cup
         {Append(a, t) : a \in {b \in TokenArrays(n - 1) : Len(b) = n - 1},
                         t \in NextTokens}

\* token.tokenAddress || token.address || ... || token.gnosisContract
\* The chain-specific fields tried first.
AddressOf_ChainFirst(token) ==
    Or3(token.ethereumContract, token.xDaiContract,
        Or3(token.gnosisContract, token.tokenAddress,
            Or2(token.address, token.contractAddress)))

AddressOf(token) ==
    Or3(token.tokenAddress, token.address,
        Or3(token.contractAddress, token.ethereumContract,
            Or2(token.xDaiContract, token.gnosisContract)))

NoEntry == [tokenAddress |-> ""]

\* The loop over allTokens (138-164): a record without address is skipped, a
\* later record replaces an earlier one under the same key.
RECURSIVE CachedTokens(_)
CachedTokens(allTokens) ==
    IF allTokens = <<>> THEN [a \in Addrs |-> NoEntry]
    ELSE LET token == allTokens[Len(allTokens)]
             before == CachedTokens(SubSeq(allTokens, 1, Len(allTokens) - 1))
             address == AddressOf(token)
         IN  IF address = "" THEN before
             ELSE [before EXCEPT ![toLowerCase[address]] =
                      [tokenAddress |-> address, shortName |-> token.shortName]]

\* response.json() returned the array: fetchAllTokens builds cachedTokens and
\* returns it.
BuildCachedTokens ==
    /\ build.pc = "json"
    /\ build' = [build EXCEPT !.pc = "returned",
                              !.cachedTokens = CachedTokens(build.allTokens)]
    /\ UNCHANGED <<homeVars, requested, rpc, run, raised, now, cacheVars, serverVars>>

BuildSpecInit ==
    /\ HomeIdle
    /\ now = StartTime
    /\ CacheInit
    /\ ServerIdle
    /\ rpc = NoRpc /\ run = IdleRun /\ raised = NoException
    /\ build \in [pc : {"json"}, allTokens : TokenArrays(MaxTokens),
                   cachedTokens : {[a \in Addrs |-> NoEntry]}]

BuildNext == BuildCachedTokens

SpecBuild == BuildSpecInit /\ [][BuildNext]_vars


----------------------------------------------------------------------------
\* Purchase modal: properties

\* Transactions submitted and not yet confirmed or failed.
InFlight == {t \in 1..Len(txs) : txs[t].stage \in {"submit", "wait"}}

\* A step that starts a buy / any transaction.
BuyStarted ==
    /\ Len(txs') = Len(txs) + 1
    /\ txs'[Len(txs')].kind = "buy"

\* A step in which transaction t leaves the in-flight set without a success.
TxFailedStep(t) ==
    /\ t \in InFlight
    /\ txs' = RemoveAt(txs, t)
    /\ txStatus' # "success"

\* C1: at most one purchase transaction (approve or buy) is submitted and not
\* yet confirmed or failed, whatever the user does (Approve, Confirm, closing
\* and reopening the modal, the 2 s timer after a success).
C1_AtMostOneInFlight == Cardinality(InFlight) <= 1

\* C2: while the allowance read is lower than the amount required for the
\* entered purchase amount, the modal renders the Approve button (Confirm is
\* not offered) and no step submits a buy; 250 tokens at 2.00
\* require 500_000000 units of a 6-decimal pay token, more than allowance 0.
C2_NoBuyBelowAllowance ==
    /\ AmountNeeded(250000000, DisplayOffer(1)) = 500000000
    /\ [](( /\ ModalShown
            /\ HasAmount(buyAmount)
            /\ ~CalculationError(buyAmount, offer)
            /\ allowance < AmountNeeded(buyAmount, offer))
           => ( /\ NeedsApproval(buyAmount, offer, allowance)
                /\ ConfirmDisabled(buyAmount, offer, allowance)))
    /\ [][(/\ offer # NoOffer
           /\ HasAmount(buyAmount)
           /\ allowance < AmountNeeded(buyAmount, offer)) => ~BuyStarted]_vars

\* C2 witness: allowance 0 is below the required amount and the approval is
\* running (Idle -> CheckingAllowance -> Approving), no buy was submitted.
C2_Witness ==
    /\ isApproving /\ txStatus = "pending"
    /\ allowance = 0
    /\ offer # NoOffer /\ HasAmount(buyAmount)
    /\ allowance < AmountNeeded(buyAmount, offer)
    /\ \E t \in 1..Len(txs) : txs[t].kind = "approve" /\ txs[t].stage = "submit"
    /\ \A t \in 1..Len(txs) : txs[t].kind # "buy"
    /\ chainBalance \in BalanceInit

\* The user-triggered changes of the purchase: Approve, Confirm, typing an
\* amount, Max.
UserPurchaseStep ==
    \/ ClickApprove(MaxTxs)
    \/ ClickBuy(MaxTxs)
    \/ \E v \in BuyAmountInputs : EditAmount(v)
    \/ SetMaxAmount

\* C7: while an approve or buy is pending (txStatus = 'pending' or
\* isApproving), no user-triggered change has an effect on the purchase state.
C7_NoUserChangeWhilePending ==
    [][(PendingDisabled /\ UserPurchaseStep)
         => UNCHANGED <<buyAmount, txStatus, isApproving, txs>>]_vars

\* C8: txStatus becomes 'success' only in the step in which a buy's tx.wait()
\* resolves (a buy that was broadcast and is now mined), and an approval ends
\* (isApproving cleared, status idle) only for an approval that was mined.
C8_SuccessOnlyAfterConfirmation ==
    [][/\ (txStatus' = "success" /\ txStatus # "success")
            => \E t \in 1..Len(txs) :
                  /\ txs[t].kind = "buy" /\ txs[t].stage = "wait"
                  /\ txs' = RemoveAt(txs, t)
                  /\ chainBalance' = chainBalance - txs[t].units
       /\ (isApproving /\ ~isApproving' /\ txStatus' = "idle")
            => \E t \in 1..Len(txs) :
                  /\ txs[t].kind = "approve" /\ txs[t].stage = "recheck"
                  /\ txs' = RemoveAt(txs, t)
                  /\ chainAllowance = txs[t].units]_vars

\* C8 witness: a buy was mined and the page shows the success.
C8_Witness == txStatus = "success" /\ Len(timers) = 1 /\ chainBalance = 0

\* C9: every failure of an approve or buy (at submission or at confirmation)
\* leaves txStatus = 'error' with a non-empty txError for that operation, whose
\* text is the error's reason if it has one, else its message, else the
\* generic text.
C9_FailureReachesUser ==
    [][/\ \A t \in 1..Len(txs) :
             TxFailedStep(t) => /\ txStatus' = "error"
                                /\ txError'.op = txs[t].kind
                                /\ txError'.message # ""
       /\ \A t \in 1..Len(txs) :
             (txs' = RemoveAt(txs, t) /\ txStatus' = "error") =>
                 \A e \in TxErrors :
                     (ApproveFailed(t, e) \/ BuyFailed(t, e))
                       => /\ TxFailedStep(t)
                          /\ txError'.message =
                               IF e.reason # "" THEN e.reason
                               ELSE IF e.message # "" THEN e.message
                               ELSE "An unknown error occurred"]_vars

\* C9 witness: a buy failed with an error that has a message and no reason.
C9_Witness ==
    /\ txStatus = "error"
    /\ txError = [op |-> "buy", message |-> "user rejected"]
    /\ txs = <<>>

----------------------------------------------------------------------------
\* The browser's token cache: properties

\* Initializations whose fetch has not been answered yet.
Fetching == {p \in 1..Len(fetches) : fetches[p] = "inflight"}

\* A step in which initialization p ends in a non-OK status or a rejection
\* while the cache holds entries.
FailedRefreshStep(p) ==
    /\ p \in Fetching
    /\ fetches'[p] = "failed"
    /\ cache # NoTokens

\* C3: callers of getTokenDetails that arrive while the cache is absent or
\* stale share one fetch: at most one fetch is in flight, every waiting caller
\* awaits that fetch's promise, and the callers that awaited the same promise
\* read the same snapshot, the one the cache still holds while any of them is
\* yet to resume.
C3_SingleFlight ==
    /\ Cardinality(Fetching) <= 1
    /\ \A c \in 1..MaxCallers :
          callers[c].pc = "waiting" =>
              /\ callers[c].p = initializationPromise
              /\ Fetching = {callers[c].p}
    /\ \A c1, c2 \in 1..MaxCallers :
          (callers[c1].pc = "done" /\ callers[c1].p # 0 /\ callers[c2].p = callers[c1].p) =>
              /\ callers[c2].pc = "done" => callers[c2].snap = callers[c1].snap
              /\ callers[c2].pc = "queued" => cache = callers[c1].snap

\* Three callers shared the first fetch and each got the entry it fetched.
C3_Witness ==
    /\ fetches = <<"loaded">>
    /\ \A c \in 1..3 : callers[c].pc = "done" /\ callers[c].p = 1 /\ Returned(c) = 1

\* C6 as stated: a failed refresh over a cache that holds entries leaves the
\* entries and cacheTimestamp unchanged.
C6_FailedRefreshLeavesTimestamp ==
    [][\A p \in 1..MaxFetches :
           FailedRefreshStep(p) => (cache' = cache /\ cacheTimestamp' = cacheTimestamp)]_vars

\* C6, amended: a failed refresh over a cache that holds entries leaves the
\* entries unchanged and sets cacheTimestamp to the time of the attempt; the
\* callers that awaited it are resumed, and a resumed caller returns from the
\* cache as it is, so it gets the prior entry.
C6_FailedRefreshKeepsEntries ==
    [][/\ \A p \in 1..MaxFetches :
              FailedRefreshStep(p) =>
                  /\ cache' = cache
                  /\ cacheTimestamp' = now
                  /\ \A c \in 1..MaxCallers :
                        (callers[c].pc = "waiting" /\ callers[c].p = p) =>
                            callers'[c].pc = "queued"
       /\ \A c \in 1..MaxCallers :
              (callers[c].pc = "queued" /\ callers'[c].pc = "done") =>
                  (callers'[c].snap = cache /\ cache' = cache)]_vars

\* The second refresh failed a day after the first one loaded; its caller got
\* the entry of the first, and cacheTimestamp is the time of the failure.
C6_Witness ==
    /\ fetches = <<"loaded", "failed">>
    /\ cache = [a \in Addrs |-> 1]
    /\ callers[2].pc = "done" /\ callers[2].p = 2 /\ Returned(2) = 1
    /\ now > StartTime
    /\ cacheTimestamp = now

----------------------------------------------------------------------------
\* The /api/token handler: properties

\* Requests that are refreshing: calling the community API or writing the file.
Refreshing == {r \in DOMAIN reqs : reqs[r].pc \in {"fetching", "writing"}}

\* C4: at most one refresh is in progress in the server process at a time.
C4_AtMostOneRefresh == Cardinality(Refreshing) <= 1

\* C5: a request whose community API call failed (network error or non-OK
\* status) while it had read a persisted snapshot ends without changing the
\* file and answers with that snapshot.
C5_UpstreamFailureKeepsSnapshot ==
    [][\A r \in DOMAIN reqs :
           (/\ reqs[r].lastError \in {"neterr", "httperr"}
            /\ reqs[r].cache.kind = "data"
            /\ reqs[r].pc # "done"
            /\ reqs'[r].pc = "done")
           => (file' = file /\ reqs'[r].res.body = reqs[r].cache)]_vars

----------------------------------------------------------------------------
\* The Max button: properties

\* x div 10^k
RECURSIVE DivPow10(_, _)
DivPow10(x, k) == IF k = 0 THEN x ELSE DivPow10(x \div 10, k - 1)

\* The cost of a (10^-6 token) at price p (10^-2), in raw units of a pay token
\* with d decimals, is a * p * 10^(d - 8): is it at most bal?
CostWithin(a, p, d, bal) ==
    IF d >= PriceDigits + AmountDigits
    THEN a * p <= DivPow10(bal, d - (PriceDigits + AmountDigits))
    ELSE a * p <= bal * Pow10(PriceDigits + AmountDigits - d)

\* C10: the amount the Max button sets is affordable: its cost at the offer
\* price, in raw pay-token units, does not exceed the balance, for 6-decimal
\* and for 18-decimal pay tokens.
C10_MaxAffordable ==
    (showBuyModal /\ buyAmount # EmptyAmount) =>
        CostWithin(buyAmount, offer.price, Decimals(offer), balance)

\* C11: the amount the Max button sets never exceeds the remaining amount of
\* the chain offer that is displayed (amountRaw / 10^offerTokenDecimals),
\* compared in raw units of the sold token.
C11_MaxWithinRemaining ==
    \A y \in MaxYamOffers :
        (showBuyModal /\ buyAmount # EmptyAmount /\ offer = combineOfferData(y))
            => buyAmount * Pow10(y.offerTokenDecimals - AmountDigits) <= y.amount

\* C12: the amount the Max button sets is monotonic in the balance: for the
\* displayed offer, a lower balance gives no more and a higher balance gives
\* no less than the amount set for the balance held.
C12_MaxMonotonic ==
    (showBuyModal /\ buyAmount # EmptyAmount) =>
        \A b \in MaxBalances :
            /\ b <= balance => MaxAmountBN(b, offer.price, offer.amount) <= buyAmount
            /\ b >= balance => MaxAmountBN(b, offer.price, offer.amount) >= buyAmount

\* Max was set for a balance that lies strictly between two others, which
\* give strictly less and strictly more.
C12_Witness ==
    /\ showBuyModal /\ buyAmount # EmptyAmount
    /\ \E b1, b2 \in MaxBalances :
          /\ b1 < balance /\ balance < b2
          /\ MaxAmountBN(b1, offer.price, offer.amount) < buyAmount
          /\ buyAmount < MaxAmountBN(b2, offer.price, offer.amount)

----------------------------------------------------------------------------
\* The /api/token handler: status, misses and timestamps

\* C13: every GET that was answered was answered with status 200, whatever
\* the cache file held and however the upstream call or the write ended; a
\* request that is still being served has sent nothing.
C13_AlwaysStatus200 ==
    \A r \in DOMAIN reqs :
        /\ reqs[r].pc = "done" => reqs[r].res.status = 200
        /\ reqs[r].pc # "done" => reqs[r].res = NoResponse

\* A request found no usable file, its refresh threw, and it was answered
\* with status 200 and the error in the body.
C13_Witness ==
    /\ file.kind = "corrupt"
    /\ reqs[1].pc = "done"
    /\ reqs[1].res.status = 200
    /\ reqs[1].res.error = "Cache temporarily unavailable"

\* C14: a request that read no persisted cache and whose community API call
\* failed with a network error is answered with status 200, an empty token
\* map and an error marker in the body.
C14_UnreachableGivesErrorMarker ==
    [][\A r \in DOMAIN reqs :
           (/\ reqs[r].cache.kind = "null"
            /\ reqs[r].lastError = "neterr"
            /\ reqs[r].pc # "done"
            /\ reqs'[r].pc = "done")
           => (/\ reqs'[r].res.status = 200
               /\ reqs'[r].res.body.tokens = NoTokens
               /\ reqs'[r].res.error # "")]_vars

\* A request whose refresh met a failure of the community API: one that
\* fetchAllTokens swallowed (lastError) or one it threw.
UpstreamFailed(r) ==
    reqs[r].lastError # "" \/ reqs[r].fetchError = "fetchAllTokens"

\* C15 (server side): once the only request has been answered after a refresh
\* in which the community API failed, and while the clock has not moved (so
\* within 24 h of that attempt), the file holds a record that isCacheValid
\* accepts, so that the next lookup returns it without calling the community
\* API again.
C15_NoRetryWithinTtl ==
    \A q \in DOMAIN reqs :
        (/\ reqs[q].pc = "done"
         /\ UpstreamFailed(q)
         /\ \A r \in DOMAIN reqs \ {q} : reqs[r].pc = "idle"
         /\ now = StartTime)
        => isCacheValid(readCache(file))

\* A step in which request r leaves "reading": the handler after readCache().
ReadStep(r) == reqs[r].pc = "reading" /\ reqs'[r].pc # "reading"

\* C16: after reading the file, a request calls the community API exactly when
\* there is no snapshot, the snapshot's age is at least 24 h, or refresh=true;
\* a snapshot younger than that is otherwise the answer, at once.
C16_RefreshExactlyWhenDue ==
    [][\A r \in DOMAIN reqs :
           ReadStep(r) =>
               LET c == readCache(file)
                   due == \/ c.kind = "null"
                          \/ c.kind = "data" /\ now - c.lastUpdated >= CACHE_MAX_AGE_MS
                          \/ reqs[r].forceRefresh
               IN  /\ reqs'[r].pc = "fetching" <=> due
                   /\ (c.kind = "data" /\ ~due)
                          => (reqs'[r].pc = "done" /\ reqs'[r].res.body = c)]_vars

\* C17: a request that finds the file missing, unparseable, or parseable
\* without the CacheFile fields treats it as a miss and calls the community
\* API.
C17_BadRecordIsMiss ==
    [][\A r \in DOMAIN reqs :
           (ReadStep(r) /\ file.kind \in {"missing", "corrupt", "junk"})
               => reqs'[r].pc = "fetching"]_vars

\* C18 (persisted record): lastUpdated of the file never decreases from one
\* written record to the next.
C18_LastUpdatedNeverDecreases ==
    [][(file.kind = "data" /\ file'.kind = "data")
           => file'.lastUpdated >= file.lastUpdated]_vars

\* Approvals that are mined and whose re-read of allowance and balance
\* (the awaited updateBuyModalData() of handleApprove) has not returned.
Rechecking == {t \in 1..Len(txs) : txs[t].kind = "approve" /\ txs[t].stage = "recheck"}

\* Approvals waiting for their confirmation.
AwaitingApproval == {t \in 1..Len(txs) : txs[t].kind = "approve" /\ txs[t].stage = "wait"}

\* C19: a confirmed approval is followed by the re-read of allowance and
\* balance, and handleApprove sets the state to idle only when that re-read
\* has returned; the confirmation step itself starts the re-read and changes
\* neither txStatus nor isApproving; an approval waiting for its confirmation
\* ends otherwise only in the error state; and while the re-read is
\* outstanding the Confirm button is disabled and no buy is submitted.
C19_RecheckBeforeIdle ==
    /\ [](Rechecking # {} =>
             (isApproving /\ ConfirmDisabled(buyAmount, offer, allowance)))
    /\ [][/\ BuyStarted => Rechecking = {}
          /\ \A t \in AwaitingApproval :
                 /\ (Len(txs') = Len(txs) /\ txs'[t].stage = "recheck")
                        => /\ isAllowanceLoading'
                           /\ isApproving' /\ txStatus' = txStatus
                           /\ allowance' = allowance
                 /\ txs' = RemoveAt(txs, t) => txStatus' = "error"
          /\ \A t \in Rechecking :
                 /\ Len(txs') = Len(txs) => txs'[t] = txs[t]
                 /\ txs' = RemoveAt(txs, t)
                        => /\ allowance' \in {chainAllowance, 0}
                           /\ balance' \in {chainBalance, 0}
                           /\ txStatus' = "idle" /\ ~isApproving']_vars

\* An approval is mined, the chain holds the new allowance, the page still
\* shows the old one, and the re-read is under way.
C19_Witness ==
    \E t \in Rechecking :
        /\ chainAllowance = txs[t].units
        /\ allowance < chainAllowance
        /\ isAllowanceLoading

\* The page with its timers and RPC calls running to completion: a timer armed
\* by setTimeout fires, whatever else the page is loading, and a started
\* loadOffer returns.
SpecTimers ==
    /\ Spec
    /\ SF_vars(\E i \in 1..MaxTxs : TimerFires(i))
    /\ WF_vars(\E i \in 1..MaxLoads : LoadFound(i) \/ LoadNotFound(i))

\* A step in which a buy reaches success.
BuySucceeded(t) ==
    /\ t \in 1..Len(txs)
    /\ txs[t].kind = "buy"
    /\ txs' = RemoveAt(txs, t)
    /\ txStatus' = "success"

\* A step that starts loadOffer for the offer of timer i and disarms it.
Refetch(i) ==
    /\ i \in 1..Len(timers)
    /\ loads' = Append(loads, timers[i])
    /\ timers' = RemoveAt(timers, i)
    /\ loading'

----------------------------------------------------------------------------
\* The purchase state across modal dismissals and offer loads

\* A step that dismisses the purchase modal / that displays a loaded offer.
ModalDismissed == showBuyModal /\ ~showBuyModal'
OfferLoaded == offer' # offer /\ offer' # NoOffer

\* C21: a step that dismisses the modal or displays a newly loaded offer
\* leaves the purchase state at its initial values: txStatus idle, no
\* txError, empty buyAmount, allowance and balance 0.
C21_PurchaseStateDiscarded ==
    [][(ModalDismissed \/ OfferLoaded)
          => /\ txStatus' = "idle"
             /\ txError' = NoError
             /\ buyAmount' = EmptyAmount
             /\ allowance' = 0 /\ balance' = 0]_vars

\* C22: once every started loadOffer has returned, and unless the route lost
\* its id since, the page displays the offer, or the error, of the id that
\* was requested last.
C22_LatestRequestDisplayed ==
    (loads = <<>> /\ requested # 0) =>
        \/ offer # NoOffer /\ offer.id = requested
        \/ offer = NoOffer /\ error.id = requested
        \/ offer = NoOffer /\ error = NoLoadError

----------------------------------------------------------------------------
\* Fetching an offer from the chain

Called(fn) == \E k \in 1..Len(run.calls) : run.calls[k].fn = fn

\* C23: when decimals() of a token fails, the decimals of that token are 18
\* and fetchOfferRpc still returns the offer: the load does not end as not
\* found.
C23_DecimalsDefaultTo18 ==
    (Called("decimals") /\ run.pc # "decimals") =>
        /\ run.y # NoYam
        /\ ~rpc.offerDecOk => run.y.offerTokenDecimals = 18
        /\ ~rpc.buyerDecOk => run.y.buyerTokenDecimals = 18
        /\ run.outcome # "notfound"

C23_Witness ==
    /\ run.pc = "done" /\ run.outcome = "offer"
    /\ ~rpc.offerDecOk /\ ~rpc.buyerDecOk
    /\ run.result.offerDecimals = 18 /\ run.result.buyerDecimals = 18

\* C24: the first call of a fetch is getOfferCount; when it fails showOffer is
\* still called; when it answers and the id is not below the count, the fetch
\* returns null and showOffer is never called.
C24_BoundsCheckOptional ==
    /\ run.calls # <<>> => run.calls[1].fn = "getOfferCount"
    /\ (rpc.offerId >= 0 /\ rpc.count < 0 /\ run.pc \notin {"idle", "count"})
           => Called("showOffer")
    /\ (rpc.count >= 0 /\ rpc.offerId >= rpc.count) =>
           /\ ~Called("showOffer")
           /\ run.y = NoYam
           /\ run.pc = "done" => run.outcome = "notfound"

C24_Witness ==
    /\ run.pc = "done" /\ rpc.count < 0
    /\ run.outcome = "offer"
    /\ run.calls[1].fn = "getOfferCount" /\ run.calls[2].fn = "showOffer"

\* C25: a network error while showOffer is read ends the load as an error,
\* not as "offer not found".
C25_RpcFailureIsLoadError ==
    (run.pc = "done" /\ rpc.show = "neterr" /\ Called("showOffer"))
        => run.outcome = "error"

----------------------------------------------------------------------------
\* Reading the allowance and the balance

\* C26: a failed read of the allowance and the balance sets both to zero and
\* clears the loading flag; it closes no modal and sets no error.
C26_FailedReadResetsToZero ==
    [][/\ \A i \in 1..Len(reads) : ReadDone(i, FALSE) =>
             /\ allowance' = 0 /\ balance' = 0
             /\ ~isAllowanceLoading'
             /\ showBuyModal' = showBuyModal
             /\ txStatus' = txStatus /\ txError' = txError /\ error' = error
       /\ \A t \in 1..Len(txs) :
             (txs' = RemoveAt(txs, t) /\ txs[t].stage = "recheck"
              /\ ApproveRechecked(t, FALSE)) =>
             /\ allowance' = 0 /\ balance' = 0
             /\ ~isAllowanceLoading'
             /\ showBuyModal' = showBuyModal
             /\ txStatus' # "error" /\ txError' = txError /\ error' = error]_vars

C26_Witness ==
    /\ showBuyModal /\ isConnected /\ offer # NoOffer
    /\ reads = <<>> /\ txs = <<>>
    /\ ~isAllowanceLoading
    /\ chainBalance > 0 /\ balance = 0 /\ allowance = 0

----------------------------------------------------------------------------
\* Enrichment

Enriched == run.pc = "done" /\ run.outcome = "offer"

\* C27: combineOfferData applied twice to the same YamOffer, with the same
\* registry and the same answers of name() and symbol(), returns the same
\* Offer in every field.
C27_EnrichmentIdempotent ==
    (Enriched /\ run.n >= 2) => run.result = run.prev

\* q is raw / 10^decimals with `digits` decimals, rounded to the nearest.
Nearest(q, raw, decimals, digits) ==
    IF decimals - digits >= 10 THEN q = 0
    ELSE IF decimals >= digits
    THEN LET unit == Pow10(decimals - digits)
             diff == q * unit - raw
         IN  2 * diff <= unit /\ 2 * (0 - diff) <= unit
    ELSE q = raw * Pow10(digits - decimals)

\* C28: price is the raw price over 10^(decimals of the pay token) with two
\* decimals, amount the raw amount over 10^(decimals of the sold token) with
\* six, reversePrice one over the price with two; 2_000000 (6 decimals) and
\* 26_031567000000000000 (18 decimals) give 2.00, 26.031567 and 0.50.
C28_DisplayedAmounts ==
    Enriched =>
        LET y == run.y
            r == run.result
            pd == y.buyerTokenDecimals - y.priceZeros
            ad == y.offerTokenDecimals - y.amountZeros
        IN  /\ Nearest(r.price, y.price, pd, 2)
            /\ Nearest(r.amount, y.amount, ad, 6)
            /\ (y.price > 0 /\ pd >= 0 /\ pd + 2 <= 8) =>
                   LET diff == r.reversePrice * y.price - Pow10(pd + 2)
                   IN  2 * diff <= y.price /\ 2 * (0 - diff) <= y.price
            /\ (y.price = 2000000 /\ pd = 6 /\ y.amount = 26031567 /\ ad = 6) =>
                   r.price = 200 /\ r.amount = 26031567 /\ r.reversePrice = 50

C28_Witness ==
    /\ Enriched
    /\ run.y.price = 2000000 /\ run.y.buyerTokenDecimals = 6
    /\ run.y.amount = 26031567 /\ run.y.amountZeros = 12
    /\ run.y.offerTokenDecimals = 18
    /\ run.result.price = 200 /\ run.result.amount = 26031567
    /\ run.result.reversePrice = 50

\* C29: the status is cancelled when the offer has a removal timestamp, even
\* with nothing left; else sold when the amount left is zero; else active.
C29_StatusPriority ==
    Enriched =>
        LET st == run.result.status
            removed == run.y.removedAt # ""
        IN  /\ st \in {"cancelled", "sold", "active"}
            /\ st = "cancelled" <=> removed
            /\ st = "sold" <=> (~removed /\ run.y.amount = 0)
            /\ st = "active" <=> (~removed /\ run.y.amount # 0)

C29_Witness ==
    /\ Enriched
    /\ run.y.removedAt # "" /\ run.y.amount = 0
    /\ run.result.status = "cancelled"

\* C30: the registry is asked only for an address that is no known
\* stablecoin, and name() and symbol() are read only for an address that is
\* neither a known stablecoin nor in the registry; when name() fails the
\* symbol() that answered is used.
C30_LookupsShortCircuit ==
    /\ \A k \in 1..Len(run.calls) :
          LET c == run.calls[k] IN
          /\ c.fn = "getTokenDetails" => ~isStableToken(c.of)
          /\ c.fn \in {"name", "symbol"} =>
                 ~isStableToken(c.of) /\ c.of \notin rpc.registry
    /\ (Enriched /\ ~rpc.nameOk /\ rpc.symbolOk
        /\ ~isStableToken(run.y.buyerTokenAddress)) =>
           run.result.buyerSymbol = TokenSymbols[run.y.buyerTokenAddress]

\* C31: for an address of the stablecoin table neither the registry nor the
\* chain (decimals, name, symbol) is asked, and the offer carries the table's
\* symbol and decimals.
C31_StableTableShortCircuits ==
    /\ \A k \in 1..Len(run.calls) :
          isStableToken(run.calls[k].of) =>
              run.calls[k].fn \notin {"getTokenDetails", "decimals", "name", "symbol"}
    /\ (Enriched /\ isStableToken(run.y.buyerTokenAddress)) =>
          /\ run.result.buyerDecimals = STABLE_TOKENS[run.y.buyerTokenAddress].decimals
          /\ run.result.buyerSymbol = STABLE_TOKENS[run.y.buyerTokenAddress].symbol
    /\ (Enriched /\ isStableToken(run.y.offerTokenAddress)) =>
          run.result.offerDecimals = STABLE_TOKENS[run.y.offerTokenAddress].decimals

Figure(f) == run.result[f]

\* C32: no division of the enrichment yields Infinity or NaN: with a zero
\* price the reverse price is left undefined, and with a zero official yield
\* or a zero or unknown number of tokens the yields and their differences are
\* undefined.
C32_NoInfinityNoNaN ==
    Enriched =>
        /\ run.result.reversePrice # Infinity
        /\ \A f \in {"priceDiff", "priceDiffPct", "offerYieldPct", "officialYieldPct",
                      "offerYieldDiff", "offerYieldDiffPct"} :
              Figure(f) \notin {"Infinity", "NaN"}

\* C33: the official price and the price difference in percent are present
\* only when the registry has a price for the sold token.
C33_DeviationNeedsReferencePrice ==
    (Enriched /\ (run.tokenDetails = NoDetails
                  \/ run.tokenDetails.tokenPrice \in {Undefined, 0})) =>
        /\ run.result.priceDiffPct = "undefined"
        /\ run.result.officialPriceUsd = Undefined

----------------------------------------------------------------------------
\* Building the cache from the registry's records

\* The first non-empty address field of a record, in the order of
\* AddressFields; '' when all are empty.
FirstNonEmpty(token) ==
    IF \A j \in 1..Len(AddressFields) : token[AddressFields[j]] = "" THEN ""
    ELSE LET j == CHOOSE i \in 1..Len(AddressFields) :
                      /\ token[AddressFields[i]] # ""
                      /\ \A h \in 1..(i - 1) : token[AddressFields[h]] = ""
         IN  token[AddressFields[j]]

\* C34: a record's address is its first non-empty field in the order
\* tokenAddress, address, contractAddress, ethereumContract, xDaiContract,
\* gnosisContract, and its entry is stored under that address in lower case.
C34_FirstAddressLowercased ==
    build.pc = "returned" =>
        /\ \A k \in 1..Len(build.allTokens) :
              LET token == build.allTokens[k]
                  address == FirstNonEmpty(token)
                  later == {FirstNonEmpty(build.allTokens[h]) :
                               h \in (k + 1)..Len(build.allTokens)} \ {""}
              IN  (address # "" /\ \A l \in later : toLowerCase[l] # toLowerCase[address]) =>
                      build.cachedTokens[toLowerCase[address]] =
                          [tokenAddress |-> address, shortName |-> token.shortName]
        /\ \A a \in Addrs :
              build.cachedTokens[a] # NoEntry =>
                  \E k \in 1..Len(build.allTokens) :
                      /\ FirstNonEmpty(build.allTokens[k]) = build.cachedTokens[a].tokenAddress
                      /\ toLowerCase[build.cachedTokens[a].tokenAddress] = a

C34_Witness ==
    /\ build.pc = "returned"
    /\ build.allTokens[1].tokenAddress = "" /\ build.allTokens[1].address = ""
    /\ build.allTokens[1].contractAddress = ""
    /\ build.allTokens[1].ethereumContract = "0xA1"
    /\ build.allTokens[1].gnosisContract = "0xa2"
    /\ Len(build.allTokens) = 1
    /\ build.cachedTokens["0xa1"] = [tokenAddress |-> "0xA1", shortName |-> "first"]
    /\ build.cachedTokens["0xa2"] = NoEntry

----------------------------------------------------------------------------
\* The price submitted with a buy

\* C35: the price handleBuy passes to buy is the offer's raw price on the
\* chain, whatever the price and the decimals of the pay token.
C35_BuyPriceIsRawPrice ==
    Enriched => BuyPrice(run.result) = Units(run.y.price, run.y.priceZeros)

----------------------------------------------------------------------------
\* The allowance behind the choice between Approve and Confirm

\* C36: no buy is started while the read of the allowance and the balance
\* that the opening of the modal, a loaded offer or a new signer has started
\* is still in flight.
C36_NoBuyOnStaleAllowance ==
    [][BuyStarted => (reads = <<>> /\ ~isAllowanceLoading)]_vars

----------------------------------------------------------------------------
\* The offer and the load error

\* C37: when no loadOffer call is in flight the page does not hold both an
\* offer and a load error.
C37_OfferOrErrorNotBoth ==
    loads = <<>> => ~(offer # NoOffer /\ error # NoLoadError)

----------------------------------------------------------------------------
\* Responses without tokens and the browser's snapshot

\* C38: processing a response of /api/token that carries an error or an empty
\* token map leaves every entry of the in-memory cache as it was.
C38_EmptyResponseKeepsSnapshot ==
    [][\A p \in 1..Len(fetches) :
         \A r \in ApiResponses :
           (r.tokens = NoTokens /\ (FetchLoaded(p, r) \/ FetchEmpty(p, r) \/ FetchFailed(p, r)))
               => \A a \in Addrs : cache[a] # 0 => cache'[a] = cache[a]]_vars

----------------------------------------------------------------------------
\* The in-flight marker of RealTokenAPI

\* C39: the completion of a refresh, whatever its outcome, clears
\* initializationPromise and resumes the callers awaiting it; a lookup that
\* finds the cache not fresh and no refresh in flight starts one; and when
\* every fetch completes the marker is clear again and again.
C39_InFlightMarkerCleared ==
    /\ [][\A p \in 1..Len(fetches) :
             (fetches[p] = "inflight" /\ fetches'[p] # "inflight") =>
                 /\ initializationPromise' = 0
                 /\ \A c \in 1..MaxCallers :
                       (callers[c].pc = "waiting" /\ callers[c].p = p)
                           => callers'[c].pc = "queued"]_vars
    /\ [][\A c \in 1..MaxCallers :
             (/\ callers[c].pc = "idle" /\ callers'[c].pc # "idle"
              /\ ~IsFresh /\ initializationPromise = 0) =>
                 /\ Len(fetches') = Len(fetches) + 1
                 /\ initializationPromise' = Len(fetches')
                 /\ fetches'[Len(fetches')] = "inflight"]_vars
    /\ []<>(initializationPromise = 0)

C39_Witness ==
    /\ Len(fetches) = 2
    /\ fetches[1] = "failed" /\ fetches[2] = "inflight"
    /\ initializationPromise = 2
    /\ cacheTimestamp # 0 /\ now - cacheTimestamp >= RealTokenAPI_CACHE_MAX_AGE_MS

----------------------------------------------------------------------------
\* The Max button on any offer

\* C40: the Max button raises nothing, whatever the offer's price and the
\* balance, and the amount it sets is not negative.
C40_MaxNeverRaises ==
    /\ raised = NoException
    /\ buyAmount # EmptyAmount => buyAmount >= 0

====
